---- MODULE Spec2Model ----
(***************************************************************************)
(* A model of the chess rules engine of ChessEngine.py (class GameState    *)
(* and class Move).  A piece "wK" is the pair <<"w", "K">>, so that        *)
(* piece[1] is the colour character and piece[2] the kind character; the   *)
(* empty tile "--" is <<"-", "-">>.  A square (r, c) is the pair <<r, c>>, *)
(* rows and columns are 0..7 as in the code, board[r][c] is the tile.      *)
(***************************************************************************)
EXTENDS Integers, Sequences, FiniteSets, TLC

VARIABLES board, whiteToMove, moveLog, whiteKingLocation, blackKingLocation,
          inCheck, pins, checks, validMoves, listCurrent,
          sqSelected, playerClicks, moveMade, running, pc,
          move1, move2, result

\* The local variables of main() in ChessMain.py, and pc: "loop" while the
\* while loop runs, "exited" after it.
mainVars == <<sqSelected, playerClicks, moveMade, running, pc>>

\* Two Move objects and what a method of the first one returned, for the
\* methods of class Move taken on their own.
moveVars == <<move1, move2, result>>

vars == <<board, whiteToMove, moveLog, whiteKingLocation, blackKingLocation,
          inCheck, pins, checks, validMoves, listCurrent, mainVars, moveVars>>

\* ------------------------------------------------------------------------
\* Bounds of the exploration
\* ------------------------------------------------------------------------

\* Number of plies from the initial position in which every legal-list move
\* is explored.
MaxFreePly == 1

\* Number of plies explored with every legal-list move after the end of one
\* of the Lines.
MaxTail == 0

\* ------------------------------------------------------------------------
\* Tiles and the initial board
\* ------------------------------------------------------------------------

EMPTY == <<"-", "-">>

Row8(s) == [c \in 0..7 |-> s[c + 1]]

InitBoard ==
  Row8(<<
    Row8(<< <<"b","R">>, <<"b","N">>, <<"b","B">>, <<"b","Q">>,
            <<"b","K">>, <<"b","B">>, <<"b","N">>, <<"b","R">> >>),
    Row8(<< <<"b","p">>, <<"b","p">>, <<"b","p">>, <<"b","p">>,
            <<"b","p">>, <<"b","p">>, <<"b","p">>, <<"b","p">> >>),
    Row8(<< EMPTY, EMPTY, EMPTY, EMPTY, EMPTY, EMPTY, EMPTY, EMPTY >>),
    Row8(<< EMPTY, EMPTY, EMPTY, EMPTY, EMPTY, EMPTY, EMPTY, EMPTY >>),
    Row8(<< EMPTY, EMPTY, EMPTY, EMPTY, EMPTY, EMPTY, EMPTY, EMPTY >>),
    Row8(<< EMPTY, EMPTY, EMPTY, EMPTY, EMPTY, EMPTY, EMPTY, EMPTY >>),
    Row8(<< <<"w","p">>, <<"w","p">>, <<"w","p">>, <<"w","p">>,
            <<"w","p">>, <<"w","p">>, <<"w","p">>, <<"w","p">> >>),
    Row8(<< <<"w","R">>, <<"w","N">>, <<"w","B">>, <<"w","Q">>,
            <<"w","K">>, <<"w","B">>, <<"w","N">>, <<"w","R">> >>)
  >>)

\* board[r][c] as Python evaluates it: a negative index counts from the end,
\* an index above 7 has no value.
At(b, r, c) == b[IF r < 0 THEN r + 8 ELSE r][IF c < 0 THEN c + 8 ELSE c]

\* ------------------------------------------------------------------------
\* class Move
\* ------------------------------------------------------------------------

\* Move.__init__ as it would be if moveID were the sum of the coordinates.
MoveSumID(startSq, endSq, b) ==
  LET pm == At(b, startSq[1], startSq[2])
  IN  [ startRow        |-> startSq[1],
        startCol        |-> startSq[2],
        endRow          |-> endSq[1],
        endCol          |-> endSq[2],
        pieceMoved      |-> pm,
        pieceCaptured   |-> At(b, endSq[1], endSq[2]),
        isPawnPromotion |-> \/ (pm = <<"w","p">> /\ endSq[1] = 0)
                            \/ (pm = <<"b","p">> /\ endSq[1] = 7),
        moveID          |-> startSq[1] + startSq[2] + endSq[1] + endSq[2] ]

Move(startSq, endSq, b) ==
  LET pm == At(b, startSq[1], startSq[2])
  IN  [ startRow        |-> startSq[1],
        startCol        |-> startSq[2],
        endRow          |-> endSq[1],
        endCol          |-> endSq[2],
        pieceMoved      |-> pm,
        pieceCaptured   |-> At(b, endSq[1], endSq[2]),
        isPawnPromotion |-> \/ (pm = <<"w","p">> /\ endSq[1] = 0)
                            \/ (pm = <<"b","p">> /\ endSq[1] = 7),
        moveID          |-> startSq[1] * 1000 + startSq[2] * 100
                            + endSq[1] * 10 + endSq[2] ]

\* Move.__eq__ as it would be if it compared the start squares only.
MoveEqByStart(m1, m2) ==
  m1.startRow = m2.startRow /\ m1.startCol = m2.startCol

\* Move.__eq__ between two Move values
MoveEq(m1, m2) == m1.moveID = m2.moveID

rowsToRanks == [r \in 0..7 |->
  CASE r = 7 -> "1" [] r = 6 -> "2" [] r = 5 -> "3" [] r = 4 -> "4"
    [] r = 3 -> "5" [] r = 2 -> "6" [] r = 1 -> "7" [] r = 0 -> "8"]

colsToFiles == [c \in 0..7 |->
  CASE c = 0 -> "a" [] c = 1 -> "b" [] c = 2 -> "c" [] c = 3 -> "d"
    [] c = 4 -> "e" [] c = 5 -> "f" [] c = 6 -> "g" [] c = 7 -> "h"]

\* getRankFile as it would be if it wrote the rank before the file.
getRankFileRankFirst(r, c) == rowsToRanks[r] \o colsToFiles[c]

getRankFile(r, c) == colsToFiles[c] \o rowsToRanks[r]

getChessNotation(m) ==
  getRankFile(m.startRow, m.startCol) \o getRankFile(m.endRow, m.endCol)

\* ------------------------------------------------------------------------
\* GameState.makeMove / GameState.undoMove, on the record gs of the fields
\* they read and write
\* ------------------------------------------------------------------------

\* makeMove as it would be if it did not record a king's new square.
makeMoveKeepsKings(gs, move) ==
  LET b1 == [gs.board EXCEPT ![move.startRow][move.startCol] = EMPTY]
      b2 == [b1 EXCEPT ![move.endRow][move.endCol] = move.pieceMoved]
      b3 == IF move.isPawnPromotion
              THEN [b2 EXCEPT ![move.endRow][move.endCol] =
                                  <<move.pieceMoved[1], "Q">>]
              ELSE b2
  IN  [ board       |-> b3,
        moveLog     |-> Append(gs.moveLog, move),
        whiteToMove |-> ~gs.whiteToMove,
        whiteKingLocation |-> gs.whiteKingLocation,
        blackKingLocation |-> gs.blackKingLocation ]

\* makeMove as it would be without the pawn promotion step.
makeMoveNoPromotion(gs, move) ==
  LET b1 == [gs.board EXCEPT ![move.startRow][move.startCol] = EMPTY]
      b2 == [b1 EXCEPT ![move.endRow][move.endCol] = move.pieceMoved]
  IN  [ board       |-> b2,
        moveLog     |-> Append(gs.moveLog, move),
        whiteToMove |-> ~gs.whiteToMove,
        whiteKingLocation |->
          IF move.pieceMoved = <<"w","K">>
            THEN <<move.endRow, move.endCol>> ELSE gs.whiteKingLocation,
        blackKingLocation |->
          IF move.pieceMoved # <<"w","K">> /\ move.pieceMoved = <<"b","K">>
            THEN <<move.endRow, move.endCol>> ELSE gs.blackKingLocation ]

\* makeMove as it would be without "swap players".
makeMoveKeepsTurn(gs, move) ==
  LET b1 == [gs.board EXCEPT ![move.startRow][move.startCol] = EMPTY]
      b2 == [b1 EXCEPT ![move.endRow][move.endCol] = move.pieceMoved]
      b3 == IF move.isPawnPromotion
              THEN [b2 EXCEPT ![move.endRow][move.endCol] =
                                  <<move.pieceMoved[1], "Q">>]
              ELSE b2
  IN  [ board       |-> b3,
        moveLog     |-> Append(gs.moveLog, move),
        whiteToMove |-> gs.whiteToMove,
        whiteKingLocation |->
          IF move.pieceMoved = <<"w","K">>
            THEN <<move.endRow, move.endCol>> ELSE gs.whiteKingLocation,
        blackKingLocation |->
          IF move.pieceMoved # <<"w","K">> /\ move.pieceMoved = <<"b","K">>
            THEN <<move.endRow, move.endCol>> ELSE gs.blackKingLocation ]

makeMove(gs, move) ==
  LET b1 == [gs.board EXCEPT ![move.startRow][move.startCol] = EMPTY]
      b2 == [b1 EXCEPT ![move.endRow][move.endCol] = move.pieceMoved]
      b3 == IF move.isPawnPromotion
              THEN [b2 EXCEPT ![move.endRow][move.endCol] =
                                  <<move.pieceMoved[1], "Q">>]
              ELSE b2
  IN  [ board       |-> b3,
        moveLog     |-> Append(gs.moveLog, move),
        whiteToMove |-> ~gs.whiteToMove,
        whiteKingLocation |->
          IF move.pieceMoved = <<"w","K">>
            THEN <<move.endRow, move.endCol>> ELSE gs.whiteKingLocation,
        blackKingLocation |->
          IF move.pieceMoved # <<"w","K">> /\ move.pieceMoved = <<"b","K">>
            THEN <<move.endRow, move.endCol>> ELSE gs.blackKingLocation ]

\* undoMove as it would be if it left the end square empty instead of
\* putting the captured piece back.
undoMoveDropsCapture(gs) ==
  IF Len(gs.moveLog) # 0
    THEN LET move == gs.moveLog[Len(gs.moveLog)]
             b1 == [gs.board EXCEPT ![move.startRow][move.startCol] =
                                       move.pieceMoved]
             b2 == [b1 EXCEPT ![move.endRow][move.endCol] = EMPTY]
         IN  [ board       |-> b2,
               moveLog     |-> SubSeq(gs.moveLog, 1, Len(gs.moveLog) - 1),
               whiteToMove |-> ~gs.whiteToMove,
               whiteKingLocation |->
                 IF move.pieceMoved = <<"w","K">>
                   THEN <<move.startRow, move.startCol>>
                   ELSE gs.whiteKingLocation,
               blackKingLocation |->
                 IF move.pieceMoved # <<"w","K">>
                      /\ move.pieceMoved = <<"b","K">>
                   THEN <<move.startRow, move.startCol>>
                   ELSE gs.blackKingLocation ]
    ELSE gs

\* undoMove as it would be if, with an empty log, it still switched the turn.
undoMoveAlwaysSwitches(gs) ==
  IF Len(gs.moveLog) # 0
    THEN LET move == gs.moveLog[Len(gs.moveLog)]
             b1 == [gs.board EXCEPT ![move.startRow][move.startCol] =
                                       move.pieceMoved]
             b2 == [b1 EXCEPT ![move.endRow][move.endCol] =
                                 move.pieceCaptured]
         IN  [ board       |-> b2,
               moveLog     |-> SubSeq(gs.moveLog, 1, Len(gs.moveLog) - 1),
               whiteToMove |-> ~gs.whiteToMove,
               whiteKingLocation |->
                 IF move.pieceMoved = <<"w","K">>
                   THEN <<move.startRow, move.startCol>>
                   ELSE gs.whiteKingLocation,
               blackKingLocation |->
                 IF move.pieceMoved # <<"w","K">>
                      /\ move.pieceMoved = <<"b","K">>
                   THEN <<move.startRow, move.startCol>>
                   ELSE gs.blackKingLocation ]
    ELSE [gs EXCEPT !.whiteToMove = ~gs.whiteToMove]

\* undoMove as it would be if it left the king locations as they are.
undoMoveKeepsKings(gs) ==
  IF Len(gs.moveLog) # 0
    THEN LET move == gs.moveLog[Len(gs.moveLog)]
             b1 == [gs.board EXCEPT ![move.startRow][move.startCol] =
                                       move.pieceMoved]
             b2 == [b1 EXCEPT ![move.endRow][move.endCol] =
                                 move.pieceCaptured]
         IN  [ board       |-> b2,
               moveLog     |-> SubSeq(gs.moveLog, 1, Len(gs.moveLog) - 1),
               whiteToMove |-> ~gs.whiteToMove,
               whiteKingLocation |-> gs.whiteKingLocation,
               blackKingLocation |-> gs.blackKingLocation ]
    ELSE gs

undoMove(gs) ==
  IF Len(gs.moveLog) # 0
    THEN LET move == gs.moveLog[Len(gs.moveLog)]
             b1 == [gs.board EXCEPT ![move.startRow][move.startCol] =
                                       move.pieceMoved]
             b2 == [b1 EXCEPT ![move.endRow][move.endCol] =
                                 move.pieceCaptured]
         IN  [ board       |-> b2,
               moveLog     |-> SubSeq(gs.moveLog, 1, Len(gs.moveLog) - 1),
               whiteToMove |-> ~gs.whiteToMove,
               whiteKingLocation |->
                 IF move.pieceMoved = <<"w","K">>
                   THEN <<move.startRow, move.startCol>>
                   ELSE gs.whiteKingLocation,
               blackKingLocation |->
                 IF move.pieceMoved # <<"w","K">>
                      /\ move.pieceMoved = <<"b","K">>
                   THEN <<move.startRow, move.startCol>>
                   ELSE gs.blackKingLocation ]
    ELSE gs

\* ------------------------------------------------------------------------
\* GameState.checkForPinsAndChecks
\* ------------------------------------------------------------------------

OnBoard(r, c) == 0 <= r /\ r < 8 /\ 0 <= c /\ c < 8

directions == << <<-1, 0>>, <<0, -1>>, <<1, 0>>, <<0, 1>>,
                 <<-1, -1>>, <<-1, 1>>, <<1, -1>>, <<1, 1>> >>

knightMoves == << <<-2, -1>>, <<-2, 1>>, <<-1, -2>>, <<-1, 2>>,
                  <<1, -2>>, <<1, 2>>, <<2, -1>>, <<2, 1>> >>

NoPinsChecks == [pins |-> <<>>, checks |-> <<>>]

\* The pins and checks of one part of a loop followed by those of the rest.
joinPinsChecks(first, rest) ==
  [pins |-> first.pins \o rest.pins, checks |-> first.checks \o rest.checks]

\* The concatenation of a sequence of lists, in order.
RECURSIVE Flatten(_)
Flatten(ss) == IF ss = <<>> THEN <<>> ELSE Head(ss) \o Flatten(Tail(ss))

\* The inner loop of checkForPinsAndChecks as it would be without the fifth
\* case of its conditional, the enemy king one square away.
RECURSIVE scanRayWithoutKing(_, _, _, _, _, _, _, _)
scanRayWithoutKing(b, startRow, startCol, allyColor, enemyColor, j, i, possiblePin) ==
  IF i > 7 THEN NoPinsChecks
  ELSE
    LET d      == directions[j + 1]
        endRow == startRow + d[1] * i
        endCol == startCol + d[2] * i
    IN
    IF ~OnBoard(endRow, endCol) THEN NoPinsChecks
    ELSE
      LET endPiece == b[endRow][endCol] IN
      IF endPiece[1] = allyColor THEN
        IF possiblePin = <<>>
          THEN scanRayWithoutKing(b, startRow, startCol, allyColor,
                                  enemyColor, j, i + 1,
                                  <<endRow, endCol, d[1], d[2]>>)
          ELSE NoPinsChecks
      ELSE IF endPiece[1] = enemyColor THEN
        LET type == endPiece[2] IN
        IF \/ (0 <= j /\ j <= 3 /\ type = "R")
           \/ (4 <= j /\ j <= 7 /\ type = "B")
           \/ (i = 1 /\ type = "p" /\
                 (\/ (enemyColor = "w" /\ 6 <= j /\ j <= 7)
                  \/ (enemyColor = "b" /\ 4 <= j /\ j <= 5)))
           \/ (type = "Q")
        THEN
          IF possiblePin = <<>>
            THEN [pins   |-> <<>>,
                  checks |-> << <<endRow, endCol, d[1], d[2]>> >>]
            ELSE joinPinsChecks(
                   [pins |-> <<possiblePin>>, checks |-> <<>>],
                   scanRayWithoutKing(b, startRow, startCol, allyColor,
                                      enemyColor, j, i + 1, possiblePin))
        ELSE NoPinsChecks
      ELSE scanRayWithoutKing(b, startRow, startCol, allyColor, enemyColor,
                              j, i + 1, possiblePin)

\* The inner loop "for i in range(1, 8)" of direction index j (0..7), from
\* step i on, with the candidate pin found so far.
RECURSIVE scanRay(_, _, _, _, _, _, _, _)
scanRay(b, startRow, startCol, allyColor, enemyColor, j, i, possiblePin) ==
  IF i > 7 THEN NoPinsChecks
  ELSE
    LET d      == directions[j + 1]
        endRow == startRow + d[1] * i
        endCol == startCol + d[2] * i
    IN
    IF ~OnBoard(endRow, endCol) THEN NoPinsChecks
    ELSE
      LET endPiece == b[endRow][endCol] IN
      IF endPiece[1] = allyColor THEN
        IF possiblePin = <<>>
          THEN scanRay(b, startRow, startCol, allyColor, enemyColor, j,
                       i + 1, <<endRow, endCol, d[1], d[2]>>)
          ELSE NoPinsChecks
      ELSE IF endPiece[1] = enemyColor THEN
        LET type == endPiece[2] IN
        IF \/ (0 <= j /\ j <= 3 /\ type = "R")
           \/ (4 <= j /\ j <= 7 /\ type = "B")
           \/ (i = 1 /\ type = "p" /\
                 (\/ (enemyColor = "w" /\ 6 <= j /\ j <= 7)
                  \/ (enemyColor = "b" /\ 4 <= j /\ j <= 5)))
           \/ (type = "Q")
           \/ (i = 1 /\ type = "K")
        THEN
          IF possiblePin = <<>>
            THEN [pins   |-> <<>>,
                  checks |-> << <<endRow, endCol, d[1], d[2]>> >>]
            ELSE joinPinsChecks(
                   [pins |-> <<possiblePin>>, checks |-> <<>>],
                   scanRay(b, startRow, startCol, allyColor, enemyColor, j,
                           i + 1, possiblePin))
        ELSE NoPinsChecks
      ELSE scanRay(b, startRow, startCol, allyColor, enemyColor, j,
                   i + 1, possiblePin)

\* The pins and the checks of the eight directions, in the order of the loop.
flattenPinsChecks(rs) ==
  [pins   |-> Flatten([j \in 1..8 |-> rs[j].pins]),
   checks |-> Flatten([j \in 1..8 |-> rs[j].checks])]

\* The outer loop over the eight directions.
scanRays(b, startRow, startCol, allyColor, enemyColor) ==
  flattenPinsChecks([j \in 1..8 |->
    scanRay(b, startRow, startCol, allyColor, enemyColor, j - 1, 1, <<>>)])

\* The knight loop as it would be if it recorded no check.
knightChecksNone(b, startRow, startCol, enemyColor) == <<>>

\* The loop over the knight offsets: the checks it appends.
knightChecks(b, startRow, startCol, enemyColor) ==
  SelectSeq([k \in 1..8 |-> <<startRow + knightMoves[k][1],
                              startCol + knightMoves[k][2],
                              knightMoves[k][1], knightMoves[k][2]>>],
            LAMBDA e : /\ OnBoard(e[1], e[2])
                       /\ b[e[1]][e[2]] = <<enemyColor, "N">>)

\* The value checkForPinsAndChecks returns for the pins and checks of the
\* rays and the checks of the knight offsets.
pinsAndChecks(rays, knights) ==
  [ inCheck |-> (rays.checks \o knights) # <<>>,
    pins    |-> rays.pins,
    checks  |-> rays.checks \o knights ]

checkForPinsAndChecks(b, wtm, wkl, bkl) ==
  LET enemyColor == IF wtm THEN "b" ELSE "w"
      allyColor  == IF wtm THEN "w" ELSE "b"
      startRow   == IF wtm THEN wkl[1] ELSE bkl[1]
      startCol   == IF wtm THEN wkl[2] ELSE bkl[2]
  IN  pinsAndChecks(
        scanRays(b, startRow, startCol, allyColor, enemyColor),
        knightChecks(b, startRow, startCol, enemyColor))

\* ------------------------------------------------------------------------
\* The per-piece move generators.  Each returns the moves it appends to the
\* list and the pins list as it leaves it.
\* ------------------------------------------------------------------------

\* The loop "for i in range(len(self.pins) - 1, -1, -1)" that looks for the
\* entry of square (row, col): its (1-based) index, 0 when there is none.
pinIndex(ps, row, col) ==
  LET S == {i \in 1..Len(ps) : ps[i][1] = row /\ ps[i][2] = col}
  IN  IF S = {} THEN 0 ELSE CHOOSE i \in S : \A k \in S : k <= i

\* list.remove(x): drops the first element equal to x.
listRemove(s, x) ==
  LET S == {i \in 1..Len(s) : s[i] = x}
  IN  IF S = {} THEN s
      ELSE LET f == CHOOSE i \in S : \A k \in S : i <= k
           IN  SubSeq(s, 1, f - 1) \o SubSeq(s, f + 1, Len(s))

\* getPawnMoves as it would be if the two-square advance were missing.
getPawnMovesNoDouble(b, wtm, ps, row, col) ==
  LET k             == pinIndex(ps, row, col)
      piece_pinned  == k # 0
      pin_direction == IF k # 0 THEN <<ps[k][3], ps[k][4]>> ELSE <<>>
      ps1           == IF k # 0 THEN listRemove(ps, ps[k]) ELSE ps
      fwd           == IF wtm THEN -1 ELSE 1
      enemy         == IF wtm THEN "b" ELSE "w"
      adv1 == /\ At(b, row + fwd, col) = EMPTY
              /\ (~piece_pinned \/ pin_direction = <<fwd, 0>>)
      capL == /\ col - 1 >= 0
              /\ At(b, row + fwd, col - 1)[1] = enemy
              /\ (~piece_pinned \/ pin_direction = <<fwd, -1>>)
      capR == /\ col + 1 <= 7
              /\ At(b, row + fwd, col + 1)[1] = enemy
              /\ (~piece_pinned \/ pin_direction = <<fwd, 1>>)
  IN  [ moves |->
          (IF adv1 THEN <<Move(<<row, col>>, <<row + fwd, col>>, b)>>
                   ELSE <<>>) \o
          (IF capL THEN <<Move(<<row, col>>, <<row + fwd, col - 1>>, b)>>
                   ELSE <<>>) \o
          (IF capR THEN <<Move(<<row, col>>, <<row + fwd, col + 1>>, b)>>
                   ELSE <<>>),
        pins |-> ps1 ]

\* getPawnMoves as it would be if a pawn also went diagonally to an empty
\* square.
getPawnMovesDiagonalToEmpty(b, wtm, ps, row, col) ==
  LET k             == pinIndex(ps, row, col)
      piece_pinned  == k # 0
      pin_direction == IF k # 0 THEN <<ps[k][3], ps[k][4]>> ELSE <<>>
      ps1           == IF k # 0 THEN listRemove(ps, ps[k]) ELSE ps
      fwd           == IF wtm THEN -1 ELSE 1
      homeRow       == IF wtm THEN 6 ELSE 1
      ally          == IF wtm THEN "w" ELSE "b"
      adv1 == /\ At(b, row + fwd, col) = EMPTY
              /\ (~piece_pinned \/ pin_direction = <<fwd, 0>>)
      adv2 == adv1 /\ row = homeRow /\ At(b, row + 2 * fwd, col) = EMPTY
      capL == /\ col - 1 >= 0
              /\ At(b, row + fwd, col - 1)[1] # ally
              /\ (~piece_pinned \/ pin_direction = <<fwd, -1>>)
      capR == /\ col + 1 <= 7
              /\ At(b, row + fwd, col + 1)[1] # ally
              /\ (~piece_pinned \/ pin_direction = <<fwd, 1>>)
  IN  [ moves |->
          (IF adv1 THEN <<Move(<<row, col>>, <<row + fwd, col>>, b)>>
                   ELSE <<>>) \o
          (IF adv2 THEN <<Move(<<row, col>>, <<row + 2 * fwd, col>>, b)>>
                   ELSE <<>>) \o
          (IF capL THEN <<Move(<<row, col>>, <<row + fwd, col - 1>>, b)>>
                   ELSE <<>>) \o
          (IF capR THEN <<Move(<<row, col>>, <<row + fwd, col + 1>>, b)>>
                   ELSE <<>>),
        pins |-> ps1 ]

\* getPawnMoves as it would be if the two-square advance did not test the
\* square it ends on.
getPawnMovesOntoPiece(b, wtm, ps, row, col) ==
  LET k             == pinIndex(ps, row, col)
      piece_pinned  == k # 0
      pin_direction == IF k # 0 THEN <<ps[k][3], ps[k][4]>> ELSE <<>>
      ps1           == IF k # 0 THEN listRemove(ps, ps[k]) ELSE ps
      fwd           == IF wtm THEN -1 ELSE 1
      homeRow       == IF wtm THEN 6 ELSE 1
      enemy         == IF wtm THEN "b" ELSE "w"
      adv1 == /\ At(b, row + fwd, col) = EMPTY
              /\ (~piece_pinned \/ pin_direction = <<fwd, 0>>)
      adv2 == adv1 /\ row = homeRow
      capL == /\ col - 1 >= 0
              /\ At(b, row + fwd, col - 1)[1] = enemy
              /\ (~piece_pinned \/ pin_direction = <<fwd, -1>>)
      capR == /\ col + 1 <= 7
              /\ At(b, row + fwd, col + 1)[1] = enemy
              /\ (~piece_pinned \/ pin_direction = <<fwd, 1>>)
  IN  [ moves |->
          (IF adv1 THEN <<Move(<<row, col>>, <<row + fwd, col>>, b)>>
                   ELSE <<>>) \o
          (IF adv2 THEN <<Move(<<row, col>>, <<row + 2 * fwd, col>>, b)>>
                   ELSE <<>>) \o
          (IF capL THEN <<Move(<<row, col>>, <<row + fwd, col - 1>>, b)>>
                   ELSE <<>>) \o
          (IF capR THEN <<Move(<<row, col>>, <<row + fwd, col + 1>>, b)>>
                   ELSE <<>>),
        pins |-> ps1 ]

getPawnMoves(b, wtm, ps, row, col) ==
  LET k             == pinIndex(ps, row, col)
      piece_pinned  == k # 0
      pin_direction == IF k # 0 THEN <<ps[k][3], ps[k][4]>> ELSE <<>>
      ps1           == IF k # 0 THEN listRemove(ps, ps[k]) ELSE ps
      fwd           == IF wtm THEN -1 ELSE 1
      homeRow       == IF wtm THEN 6 ELSE 1
      enemy         == IF wtm THEN "b" ELSE "w"
      adv1 == /\ At(b, row + fwd, col) = EMPTY
              /\ (~piece_pinned \/ pin_direction = <<fwd, 0>>)
      adv2 == adv1 /\ row = homeRow /\ At(b, row + 2 * fwd, col) = EMPTY
      capL == /\ col - 1 >= 0
              /\ At(b, row + fwd, col - 1)[1] = enemy
              /\ (~piece_pinned \/ pin_direction = <<fwd, -1>>)
      capR == /\ col + 1 <= 7
              /\ At(b, row + fwd, col + 1)[1] = enemy
              /\ (~piece_pinned \/ pin_direction = <<fwd, 1>>)
  IN  [ moves |->
          (IF adv1 THEN <<Move(<<row, col>>, <<row + fwd, col>>, b)>>
                   ELSE <<>>) \o
          (IF adv2 THEN <<Move(<<row, col>>, <<row + 2 * fwd, col>>, b)>>
                   ELSE <<>>) \o
          (IF capL THEN <<Move(<<row, col>>, <<row + fwd, col - 1>>, b)>>
                   ELSE <<>>) \o
          (IF capR THEN <<Move(<<row, col>>, <<row + fwd, col + 1>>, b)>>
                   ELSE <<>>),
        pins |-> ps1 ]

rookDirections == << <<-1, 0>>, <<0, -1>>, <<1, 0>>, <<0, 1>> >>

\* The loop of getRookMoves along one direction as it would be if it went
\* on behind an enemy piece.
RECURSIVE rookRayThroughEnemy(_, _, _, _, _, _, _, _)
rookRayThroughEnemy(b, row, col, direction, i, piece_pinned, pin_direction, enemy_color) ==
  IF i > 7 THEN <<>>
  ELSE
    LET end_row == row + direction[1] * i
        end_col == col + direction[2] * i
    IN
    IF 0 <= end_row /\ end_row <= 7 /\ 0 <= end_col /\ end_col <= 7 THEN
      IF \/ ~piece_pinned
         \/ pin_direction = direction
         \/ pin_direction = <<-direction[1], -direction[2]>>
      THEN
        LET end_piece == b[end_row][end_col] IN
        IF end_piece = EMPTY \/ end_piece[1] = enemy_color
          THEN <<Move(<<row, col>>, <<end_row, end_col>>, b)>> \o
               rookRayThroughEnemy(b, row, col, direction, i + 1,
                                   piece_pinned, pin_direction, enemy_color)
        ELSE <<>>
      ELSE rookRayThroughEnemy(b, row, col, direction, i + 1, piece_pinned,
                               pin_direction, enemy_color)
    ELSE <<>>

\* The loop "for i in range(1, 8)" of getRookMoves along one direction.
RECURSIVE rookRay(_, _, _, _, _, _, _, _)
rookRay(b, row, col, direction, i, piece_pinned, pin_direction, enemy_color) ==
  IF i > 7 THEN <<>>
  ELSE
    LET end_row == row + direction[1] * i
        end_col == col + direction[2] * i
    IN
    IF 0 <= end_row /\ end_row <= 7 /\ 0 <= end_col /\ end_col <= 7 THEN
      IF \/ ~piece_pinned
         \/ pin_direction = direction
         \/ pin_direction = <<-direction[1], -direction[2]>>
      THEN
        LET end_piece == b[end_row][end_col] IN
        IF end_piece = EMPTY
          THEN <<Move(<<row, col>>, <<end_row, end_col>>, b)>> \o
               rookRay(b, row, col, direction, i + 1, piece_pinned,
                       pin_direction, enemy_color)
        ELSE IF end_piece[1] = enemy_color
          THEN <<Move(<<row, col>>, <<end_row, end_col>>, b)>>
        ELSE <<>>
      ELSE rookRay(b, row, col, direction, i + 1, piece_pinned,
                   pin_direction, enemy_color)
    ELSE <<>>

getRookMoves(b, wtm, ps, row, col) ==
  LET k             == pinIndex(ps, row, col)
      piece_pinned  == k # 0
      pin_direction == IF k # 0 THEN <<ps[k][3], ps[k][4]>> ELSE <<>>
      ps1           == IF k # 0 /\ b[row][col][2] # "Q"
                         THEN listRemove(ps, ps[k]) ELSE ps
      enemy_color   == IF wtm THEN "b" ELSE "w"
  IN  [ moves |-> Flatten([n \in 1..4 |->
                     rookRay(b, row, col, rookDirections[n], 1,
                             piece_pinned, pin_direction, enemy_color)]),
        pins |-> ps1 ]

knight_moves == << <<-2, -1>>, <<-2, 1>>, <<-1, 2>>, <<1, 2>>,
                   <<2, -1>>, <<2, 1>>, <<-1, -2>>, <<1, -2>> >>

\* getKnightMoves as it would be without the test of piece_pinned.
getKnightMovesIgnoringPin(b, wtm, ps, row, col) ==
  LET k          == pinIndex(ps, row, col)
      ps1        == IF k # 0 THEN listRemove(ps, ps[k]) ELSE ps
      ally_color == IF wtm THEN "w" ELSE "b"
      one(n) == LET end_row == row + knight_moves[n][1]
                    end_col == col + knight_moves[n][2]
                IN  IF /\ 0 <= end_row /\ end_row <= 7
                       /\ 0 <= end_col /\ end_col <= 7
                       /\ b[end_row][end_col][1] # ally_color
                      THEN <<Move(<<row, col>>, <<end_row, end_col>>, b)>>
                      ELSE <<>>
  IN  [ moves |-> Flatten([n \in 1..8 |-> one(n)]), pins |-> ps1 ]

getKnightMoves(b, wtm, ps, row, col) ==
  LET k            == pinIndex(ps, row, col)
      piece_pinned == k # 0
      ps1          == IF k # 0 THEN listRemove(ps, ps[k]) ELSE ps
      ally_color   == IF wtm THEN "w" ELSE "b"
      one(n) == LET end_row == row + knight_moves[n][1]
                    end_col == col + knight_moves[n][2]
                IN  IF /\ 0 <= end_row /\ end_row <= 7
                       /\ 0 <= end_col /\ end_col <= 7
                       /\ ~piece_pinned
                       /\ b[end_row][end_col][1] # ally_color
                      THEN <<Move(<<row, col>>, <<end_row, end_col>>, b)>>
                      ELSE <<>>
  IN  [ moves |-> Flatten([n \in 1..8 |-> one(n)]), pins |-> ps1 ]

bishopDirections == << <<-1, -1>>, <<-1, 1>>, <<1, 1>>, <<1, -1>> >>

\* The loop "for i in range(1, 8)" of getBishopMoves along one direction.
RECURSIVE bishopRay(_, _, _, _, _, _, _, _)
bishopRay(b, row, col, direction, i, piece_pinned, pin_direction, enemy_color) ==
  IF i > 7 THEN <<>>
  ELSE
    LET end_row == row + direction[1] * i
        end_col == col + direction[2] * i
    IN
    IF 0 <= end_row /\ end_row <= 7 /\ 0 <= end_col /\ end_col <= 7 THEN
      IF \/ ~piece_pinned
         \/ pin_direction = direction
         \/ pin_direction = <<-direction[1], -direction[2]>>
      THEN
        LET end_piece == b[end_row][end_col] IN
        IF end_piece = EMPTY
          THEN <<Move(<<row, col>>, <<end_row, end_col>>, b)>> \o
               bishopRay(b, row, col, direction, i + 1, piece_pinned,
                         pin_direction, enemy_color)
        ELSE IF end_piece[1] = enemy_color
          THEN <<Move(<<row, col>>, <<end_row, end_col>>, b)>>
        ELSE <<>>
      ELSE bishopRay(b, row, col, direction, i + 1, piece_pinned,
                     pin_direction, enemy_color)
    ELSE <<>>

\* getBishopMoves as it would be if it took no notice of a pin.
getBishopMovesIgnoringPin(b, wtm, ps, row, col) ==
  LET k           == pinIndex(ps, row, col)
      ps1         == IF k # 0 THEN listRemove(ps, ps[k]) ELSE ps
      enemy_color == IF wtm THEN "b" ELSE "w"
  IN  [ moves |-> Flatten([n \in 1..4 |->
                     bishopRay(b, row, col, bishopDirections[n], 1,
                               FALSE, <<>>, enemy_color)]),
        pins |-> ps1 ]

getBishopMoves(b, wtm, ps, row, col) ==
  LET k             == pinIndex(ps, row, col)
      piece_pinned  == k # 0
      pin_direction == IF k # 0 THEN <<ps[k][3], ps[k][4]>> ELSE <<>>
      ps1           == IF k # 0 THEN listRemove(ps, ps[k]) ELSE ps
      enemy_color   == IF wtm THEN "b" ELSE "w"
  IN  [ moves |-> Flatten([n \in 1..4 |->
                     bishopRay(b, row, col, bishopDirections[n], 1,
                               piece_pinned, pin_direction, enemy_color)]),
        pins |-> ps1 ]

\* The moves ms already appended, followed by what the generator result g
\* appends; the pins list as g leaves it.
appendedTo(ms, g) == [moves |-> ms \o g.moves, pins |-> g.pins]

\* The second call of getQueenMoves, after getBishopMoves has returned bm.
queenRookPart(b, wtm, row, col, bm) ==
  appendedTo(bm.moves, getRookMoves(b, wtm, bm.pins, row, col))

getQueenMoves(b, wtm, ps, row, col) ==
  queenRookPart(b, wtm, row, col, getBishopMoves(b, wtm, ps, row, col))

row_moves == <<-1, -1, -1, 0, 0, 0, 1, 1, 1>>
col_moves == <<-1, 0, 1, -1, 0, 1, -1, 0, 1>>

\* The loop "for i in range(8)" of getKingMoves from index i (0..7) on, with
\* the king locations as the previous iterations left them.  Returns the
\* moves appended and the king locations at the end of the loop.
kingStepThen(ms, rest) ==
  [moves |-> ms \o rest.moves, wkl |-> rest.wkl, bkl |-> rest.bkl]

\* The loop of getKingMoves as it would be without "place king back on
\* original location".
RECURSIVE kingStepsNotPlacedBack(_, _, _, _, _, _, _)
kingStepsNotPlacedBack(b, wtm, wkl, bkl, row, col, i) ==
  IF i > 7 THEN [moves |-> <<>>, wkl |-> wkl, bkl |-> bkl]
  ELSE
    LET ally_color == IF wtm THEN "w" ELSE "b"
        end_row == row + row_moves[i + 1]
        end_col == col + col_moves[i + 1]
    IN
    IF /\ 0 <= end_row /\ end_row <= 7 /\ 0 <= end_col /\ end_col <= 7
       /\ b[end_row][end_col][1] # ally_color
    THEN
      LET wkl1 == IF ally_color = "w" THEN <<end_row, end_col>> ELSE wkl
          bkl1 == IF ally_color = "w" THEN bkl ELSE <<end_row, end_col>>
          scan == checkForPinsAndChecks(b, wtm, wkl1, bkl1)
      IN  kingStepThen(
            IF ~scan.inCheck
              THEN <<Move(<<row, col>>, <<end_row, end_col>>, b)>>
              ELSE <<>>,
            kingStepsNotPlacedBack(b, wtm, wkl1, bkl1, row, col, i + 1))
    ELSE kingStepsNotPlacedBack(b, wtm, wkl, bkl, row, col, i + 1)

RECURSIVE kingSteps(_, _, _, _, _, _, _)
kingSteps(b, wtm, wkl, bkl, row, col, i) ==
  IF i > 7 THEN [moves |-> <<>>, wkl |-> wkl, bkl |-> bkl]
  ELSE
    LET ally_color == IF wtm THEN "w" ELSE "b"
        end_row == row + row_moves[i + 1]
        end_col == col + col_moves[i + 1]
    IN
    IF /\ 0 <= end_row /\ end_row <= 7 /\ 0 <= end_col /\ end_col <= 7
       /\ b[end_row][end_col][1] # ally_color
    THEN
      LET wkl1 == IF ally_color = "w" THEN <<end_row, end_col>> ELSE wkl
          bkl1 == IF ally_color = "w" THEN bkl ELSE <<end_row, end_col>>
          scan == checkForPinsAndChecks(b, wtm, wkl1, bkl1)
          wkl2 == IF ally_color = "w" THEN <<row, col>> ELSE wkl1
          bkl2 == IF ally_color = "w" THEN bkl1 ELSE <<row, col>>
      IN  kingStepThen(
            IF ~scan.inCheck
              THEN <<Move(<<row, col>>, <<end_row, end_col>>, b)>>
              ELSE <<>>,
            kingSteps(b, wtm, wkl2, bkl2, row, col, i + 1))
    ELSE kingSteps(b, wtm, wkl, bkl, row, col, i + 1)

\* getKingMoves as it would be if it did not test the destination for check.
getKingMovesUnchecked(b, wtm, wkl, bkl, row, col) ==
  LET ally_color == IF wtm THEN "w" ELSE "b"
      one(i) == LET end_row == row + row_moves[i + 1]
                    end_col == col + col_moves[i + 1]
                IN  IF /\ 0 <= end_row /\ end_row <= 7
                       /\ 0 <= end_col /\ end_col <= 7
                       /\ b[end_row][end_col][1] # ally_color
                      THEN <<Move(<<row, col>>, <<end_row, end_col>>, b)>>
                      ELSE <<>>
  IN  [ moves |-> Flatten([i \in 1..8 |-> one(i - 1)]),
        wkl |-> wkl, bkl |-> bkl ]

getKingMoves(b, wtm, wkl, bkl, row, col) ==
  kingSteps(b, wtm, wkl, bkl, row, col, 0)

\* ------------------------------------------------------------------------
\* GameState.getAllPossibleMoves
\* ------------------------------------------------------------------------

\* A generator result g that leaves the king locations alone.
withKings(g, wkl, bkl) ==
  [moves |-> g.moves, pins |-> g.pins, wkl |-> wkl, bkl |-> bkl]

\* The result g of getKingMoves, which leaves the pins list alone.
withPins(g, ps) ==
  [moves |-> g.moves, pins |-> ps, wkl |-> g.wkl, bkl |-> g.bkl]

\* self.moveFunctions[pieceType](r, c, moves): the moves appended, the pins
\* list and the king locations after the call.
moveFunctions(pieceType, b, wtm, ps, wkl, bkl, r, c) ==
  CASE pieceType = "p" -> withKings(getPawnMoves(b, wtm, ps, r, c), wkl, bkl)
    [] pieceType = "R" -> withKings(getRookMoves(b, wtm, ps, r, c), wkl, bkl)
    [] pieceType = "N" -> withKings(getKnightMoves(b, wtm, ps, r, c), wkl, bkl)
    [] pieceType = "B" -> withKings(getBishopMoves(b, wtm, ps, r, c), wkl, bkl)
    [] pieceType = "Q" -> withKings(getQueenMoves(b, wtm, ps, r, c), wkl, bkl)
    [] pieceType = "K" -> withPins(getKingMoves(b, wtm, wkl, bkl, r, c), ps)

\* The moves ms already appended, followed by those of the rest of the loop.
movesThen(ms, rest) ==
  [moves |-> ms \o rest.moves, pins |-> rest.pins,
   wkl |-> rest.wkl, bkl |-> rest.bkl]

\* The loop over r from row r on and, inside it, the loop over c from
\* column c on, with the pins list and king locations as the earlier squares
\* left them.
RECURSIVE allMovesRows(_, _, _, _, _, _)
RECURSIVE allMovesRowsAfter(_, _, _, _)
RECURSIVE allMovesCols(_, _, _, _, _, _, _)
RECURSIVE allMovesColsAfter(_, _, _, _, _)

allMovesCols(b, wtm, ps, wkl, bkl, r, c) ==
  IF c > 7 THEN [moves |-> <<>>, pins |-> ps, wkl |-> wkl, bkl |-> bkl]
  ELSE
    LET piece == b[r][c]
        turn  == piece[1]
    IN
    IF piece # EMPTY /\ ((turn = "w" /\ wtm) \/ (turn = "b" /\ ~wtm))
      THEN allMovesColsAfter(b, wtm, r, c,
             moveFunctions(piece[2], b, wtm, ps, wkl, bkl, r, c))
      ELSE allMovesCols(b, wtm, ps, wkl, bkl, r, c + 1)

\* The rest of row r after the generator of column c returned g.
allMovesColsAfter(b, wtm, r, c, g) ==
  movesThen(g.moves, allMovesCols(b, wtm, g.pins, g.wkl, g.bkl, r, c + 1))

allMovesRows(b, wtm, ps, wkl, bkl, r) ==
  IF r > 7 THEN [moves |-> <<>>, pins |-> ps, wkl |-> wkl, bkl |-> bkl]
  ELSE allMovesRowsAfter(b, wtm, r,
                         allMovesCols(b, wtm, ps, wkl, bkl, r, 0))

\* The rows after r, once the loop over the columns of row r returned g.
allMovesRowsAfter(b, wtm, r, g) ==
  movesThen(g.moves, allMovesRows(b, wtm, g.pins, g.wkl, g.bkl, r + 1))

getAllPossibleMoves(b, wtm, ps, wkl, bkl) ==
  allMovesRows(b, wtm, ps, wkl, bkl, 0)

\* ------------------------------------------------------------------------
\* GameState.getValidMoves
\* ------------------------------------------------------------------------

\* moves.remove(m): drops the first element that compares equal to m.
movesRemove(moves, m) ==
  LET S == {i \in 1..Len(moves) : MoveEq(moves[i], m)}
  IN  IF S = {} THEN moves
      ELSE LET f == CHOOSE i \in S : \A k \in S : i <= k
           IN  SubSeq(moves, 1, f - 1) \o SubSeq(moves, f + 1, Len(moves))

\* The squares appended to validSquares for a checker that is not a knight:
\* "for i in range(1, 8)", leaving the loop once the checker's square is in.
checkLine(kingRow, kingCol, check) ==
  LET sq(i) == <<kingRow + check[3] * i, kingCol + check[4] * i>>
      H     == {i \in 1..7 : sq(i)[1] = check[1] /\ sq(i)[2] = check[2]}
      last  == IF H = {} THEN 7 ELSE CHOOSE i \in H : \A k \in H : i <= k
  IN  [i \in 1..last |-> sq(i)]

\* The backward loop as it would be if it removed no move.
filterCheckKeepsAll(moves, validSquares, i) == moves

\* The backward loop "for i in range(len(moves) - 1, -1, -1)" from Python
\* index i down.
RECURSIVE filterCheck(_, _, _)
filterCheck(moves, validSquares, i) ==
  IF i < 0 THEN moves
  ELSE LET m == moves[i + 1] IN
       IF /\ m.pieceMoved[2] # "K"
          /\ ~(\E n \in 1..Len(validSquares) :
                  validSquares[n] = <<m.endRow, m.endCol>>)
         THEN filterCheck(movesRemove(moves, m), validSquares, i - 1)
         ELSE filterCheck(moves, validSquares, i - 1)

\* What getValidMoves returns and leaves in the GameState: the list of
\* moves, inCheck, pins, checks and the two king locations, for the result
\* scan of checkForPinsAndChecks and the result g of the generator called.
validMovesResult(ms, scan, ps, g) ==
  [ moves   |-> ms,
    inCheck |-> scan.inCheck, pins |-> ps, checks |-> scan.checks,
    whiteKingLocation |-> g.wkl, blackKingLocation |-> g.bkl ]

\* The branch "only 1 check" once getAllPossibleMoves has returned all.
singleCheck(b, kingRow, kingCol, scan, all) ==
  LET check         == scan.checks[1]
      checkRow      == check[1]
      checkCol      == check[2]
      pieceChecking == b[checkRow][checkCol]
      validSquares  == IF pieceChecking[2] = "N"
                         THEN << <<checkRow, checkCol>> >>
                         ELSE checkLine(kingRow, kingCol, check)
  IN  validMovesResult(
        filterCheck(all.moves, validSquares, Len(all.moves) - 1),
        scan, all.pins, all)

\* getValidMoves after the scan as it would be if it returned all possible
\* moves whatever the checks.
validMovesWhateverChecks(b, wtm, wkl, bkl, scan) ==
  validMovesResult(
    getAllPossibleMoves(b, wtm, scan.pins, wkl, bkl).moves, scan, scan.pins,
    [wkl |-> wkl, bkl |-> bkl])

\* getValidMoves once checkForPinsAndChecks has returned scan.
validMovesAfterScan(b, wtm, wkl, bkl, scan) ==
  LET kingRow == IF wtm THEN wkl[1] ELSE bkl[1]
      kingCol == IF wtm THEN wkl[2] ELSE bkl[2]
      king    == getKingMoves(b, wtm, wkl, bkl, kingRow, kingCol)
      all     == getAllPossibleMoves(b, wtm, scan.pins, wkl, bkl)
  IN
  IF scan.inCheck THEN
    IF Len(scan.checks) = 1
      THEN singleCheck(b, kingRow, kingCol, scan, all)
      ELSE validMovesResult(king.moves, scan, scan.pins, king)
  ELSE validMovesResult(all.moves, scan, all.pins, all)

getValidMoves(b, wtm, wkl, bkl) ==
  validMovesAfterScan(b, wtm, wkl, bkl,
                      checkForPinsAndChecks(b, wtm, wkl, bkl))

\* ------------------------------------------------------------------------
\* The games that are explored
\* ------------------------------------------------------------------------

\* Games played move by move from the initial position.  A move of a line is
\* only ever played when getValidMoves() returns it.
Lines == <<
  \* fool's mate
  <<"f2f3", "e7e5", "g2g4", "d8h4">>,
  \* a king in check on a diagonal, the square behind it, the king taken
  <<"f2f3", "e7e5", "e1f2", "d8h4", "f2e1", "h4e1">>,
  \* a queen pinned on a diagonal
  <<"d2d4", "e7e6", "d1d2", "f8b4">>,
  \* the kings two squares apart on a file, then the step between them if
  \* the list holds it
  <<"e2e4", "d7d5", "e4d5", "e8d7", "e1e2", "d7d6", "e2e3", "d6d5", "e3d3",
    "d5d4">>,
  \* a rook, a bishop and a queen each with free squares and a capture
  <<"a2a4", "b7b5", "a4b5", "a7a6", "d2d4", "g7g6", "d1d3", "h7h6">>,
  \* the white king taken, then a knight and a bishop both attacking the
  \* square where whiteKingLocation still points
  <<"f2f3", "e7e5", "e1f2", "d8h4", "f2e1", "h4e1", "h2h3", "e1h4", "g2g3",
    "b8c6", "a2a4", "c6d4", "a4a5", "d4b3", "a5a6", "b3d2", "a6b7", "f8b4",
    "b2b3", "d2f3">>,
  \* a knight pinned on a diagonal by a bishop with a queen behind it
  <<"d2d4", "c7c6", "b1d2", "d8a5", "h2h3", "e7e6", "h3h4", "f8b4">>,
  \* a knight pinned on a diagonal
  <<"d2d4", "e7e6", "b1d2", "f8b4">>,
  \* a pawn pinned on its file with its king ahead of it
  <<"e2e3", "e7e6", "e1e2", "d8h4", "e2d3", "h4h5", "d3d4", "h5d1">>,
  \* a bishop pinned on a file
  <<"e2e4", "d7d5", "e4d5", "d8d5", "f1e2", "d5e5">>,
  \* a bishop pinned on a diagonal
  <<"d2d4", "e7e6", "c1d2", "f8b4">>,
  \* a rook pinned on a diagonal
  <<"d2d4", "e7e6", "a2a4", "a7a6", "a1a3", "b7b6", "a3d3", "h7h6",
    "d3d2", "f8b4">>,
  \* a rook pinned on a file
  <<"e2e4", "d7d5", "e4d5", "d8d5", "h2h4", "a7a6", "h1h3", "a6a5",
    "h3e3", "d5e5">>,
  \* check by a knight
  <<"b1c3", "a7a6", "c3d5", "a6a5", "d5c7">>,
  \* check by a pawn, then a promotion with capture
  <<"e2e4", "d7d5", "e4e5", "d5d4", "e5e6", "d4d3", "e6f7", "e8d7",
    "f7g8">>,
  \* double check by queen and knight
  <<"e2e4", "d7d5", "e4d5", "e7e5", "f2f4", "e5f4", "b1c3", "a7a6",
    "c3e4", "a6a5", "d1e2", "a5a4", "e4d6">>,
  \* check by a bishop
  <<"e2e4", "d7d6", "f1b5">>,
  \* a king with a free square down-right of it
  <<"a2a3", "f7f5", "a3a4">>,
  \* a black pawn promotes with a capture, a white pawn is about to
  <<"a2a3", "h7h5", "a3a4", "h5h4", "a4a5", "h4h3", "a5a6", "h3g2",
    "a6b7", "g2h1">>,
  \* a mate on the e-file with the square behind the king empty
  <<"e2e4", "e7e5", "d1h5", "e8e7", "h5e5">>,
  \* a pawn advances two squares to stand beside an enemy pawn
  <<"e2e4", "d7d5", "c2c4", "a7a6", "e4e5", "f7f5">>
>>

IsPrefix(s, t) == Len(s) <= Len(t) /\ \A i \in 1..Len(s) : s[i] = t[i]

logNotation == [i \in 1..Len(moveLog) |-> getChessNotation(moveLog[i])]

\* The caller's choice of the move m, in the game whose moves so far are
\* written ln, is one the exploration follows.
Explored(ln, m) ==
  \/ Len(ln) < MaxFreePly
  \/ \E nl \in {Append(ln, getChessNotation(m))} :
       \E n \in 1..Len(Lines) : IsPrefix(nl, Lines[n])
  \/ \E n \in 1..Len(Lines) :
       IsPrefix(Lines[n], ln) /\ Len(ln) < Len(Lines[n]) + MaxTail

\* ------------------------------------------------------------------------
\* The state machine: one GameState and the list its caller holds
\* ------------------------------------------------------------------------

\* The fields of the GameState that makeMove and undoMove read and write.
GS == [ board |-> board, moveLog |-> moveLog, whiteToMove |-> whiteToMove,
        whiteKingLocation |-> whiteKingLocation,
        blackKingLocation |-> blackKingLocation ]

Init ==
  /\ board = InitBoard
  /\ whiteToMove = TRUE
  /\ moveLog = <<>>
  /\ whiteKingLocation = <<7, 4>>
  /\ blackKingLocation = <<0, 4>>
  /\ inCheck = FALSE
  /\ pins = <<>>
  /\ checks = <<>>
  /\ validMoves = <<>>
  /\ listCurrent = FALSE
  /\ sqSelected = <<>>
  /\ playerClicks = <<>>
  /\ moveMade = FALSE
  /\ running = TRUE
  /\ pc = "loop"
  /\ move1 = <<>>
  /\ move2 = <<>>
  /\ result = <<>>

\* The caller calls getValidMoves() and keeps the returned list.
GetValidMoves ==
  \E r \in {getValidMoves(board, whiteToMove, whiteKingLocation,
                           blackKingLocation)} :
      /\ validMoves' = r.moves
      /\ inCheck' = r.inCheck
      /\ pins' = r.pins
      /\ checks' = r.checks
      /\ whiteKingLocation' = r.whiteKingLocation
      /\ blackKingLocation' = r.blackKingLocation
      /\ listCurrent' = TRUE
      /\ UNCHANGED <<board, whiteToMove, moveLog, mainVars, moveVars>>

\* The caller applies a move of the list returned for the current position.
MakeMove ==
  /\ listCurrent
  /\ \E ln \in {logNotation}, i \in 1..Len(validMoves) :
       /\ Explored(ln, validMoves[i])
       /\ \E n \in {makeMove(GS, validMoves[i])} :
              /\ board' = n.board
              /\ moveLog' = n.moveLog
              /\ whiteToMove' = n.whiteToMove
              /\ whiteKingLocation' = n.whiteKingLocation
              /\ blackKingLocation' = n.blackKingLocation
  /\ validMoves' = <<>>
  /\ listCurrent' = FALSE
  /\ UNCHANGED <<inCheck, pins, checks, mainVars, moveVars>>

\* The caller calls undoMove(); the list it holds is no longer current.
UndoMove ==
  /\ \E n \in {undoMove(GS)} :
         /\ board' = n.board
         /\ moveLog' = n.moveLog
         /\ whiteToMove' = n.whiteToMove
         /\ whiteKingLocation' = n.whiteKingLocation
         /\ blackKingLocation' = n.blackKingLocation
  /\ validMoves' = <<>>
  /\ listCurrent' = FALSE
  /\ UNCHANGED <<inCheck, pins, checks, mainVars, moveVars>>

Next == GetValidMoves \/ MakeMove \/ UndoMove

Spec == Init /\ [][Next]_vars

\* ------------------------------------------------------------------------
\* ChessMain.main: the event loop that drives one GameState
\* ------------------------------------------------------------------------

\* The squares the mouse is clicked on: e2, e4, e5 and e7.
ClickSquares == {<<6, 4>>, <<4, 4>>, <<3, 4>>, <<1, 4>>}

\* Longest move log and longest click buffer that are explored.
MaxMainPly == 1
MaxClicks == 2

\* gs.makeMove(validMoves[i]) for every element of ms, in the order of ms.
RECURSIVE makeMoves(_, _)
makeMoves(gs, ms) ==
  IF ms = <<>> THEN gs ELSE makeMoves(makeMove(gs, Head(ms)), Tail(ms))

\* The elements of the list the loop "for i in range(len(validMoves))" finds
\* equal to the candidate move.
matchingMoves(vm, move) == SelectSeq(vm, LAMBDA v : MoveEq(move, v))

\* The part of the handler after the second click: the candidate is built
\* from the two clicks and compared with every element of the list.
afterSecondClick(gs, vm, sel, clicks, made, matches) ==
  IF matches # <<>>
    THEN [ gs |-> makeMoves(gs, matches), sqSelected |-> <<>>,
           playerClicks |-> <<>>, moveMade |-> TRUE ]
    ELSE [ gs |-> gs, sqSelected |-> sel,
           playerClicks |-> IF ~made THEN <<sel>> ELSE clicks,
           moveMade |-> made ]

\* The handler of MOUSEBUTTONDOWN once the click is in sqSelected and
\* playerClicks.
afterClick(gs, vm, sel, clicks, made) ==
  IF Len(clicks) = 2
    THEN afterSecondClick(gs, vm, sel, clicks, made,
           matchingMoves(vm, Move(clicks[1], clicks[2], gs.board)))
    ELSE [ gs |-> gs, sqSelected |-> sel, playerClicks |-> clicks,
           moveMade |-> made ]

\* The handler of MOUSEBUTTONDOWN for a click on the square (row, col).
mouseButtonDown(gs, vm, sel, clicks, made, row, col) ==
  IF sel = <<row, col>>
    THEN afterClick(gs, vm, <<>>, <<>>, made)
    ELSE afterClick(gs, vm, <<row, col>>, Append(clicks, <<row, col>>), made)

MainInit ==
  /\ board = InitBoard
  /\ whiteToMove = TRUE
  /\ moveLog = <<>>
  /\ \E r \in {getValidMoves(InitBoard, TRUE, <<7, 4>>, <<0, 4>>)} :
       /\ validMoves = r.moves
       /\ inCheck = r.inCheck
       /\ pins = r.pins
       /\ checks = r.checks
       /\ whiteKingLocation = r.whiteKingLocation
       /\ blackKingLocation = r.blackKingLocation
  /\ listCurrent = TRUE
  /\ sqSelected = <<>>
  /\ playerClicks = <<>>
  /\ moveMade = FALSE
  /\ running = TRUE
  /\ pc = "loop"
  /\ move1 = <<>>
  /\ move2 = <<>>
  /\ result = <<>>

\* One MOUSEBUTTONDOWN event is handled.
MouseButtonDown ==
  /\ pc = "loop"
  /\ \E sq \in ClickSquares :
       \E n \in {mouseButtonDown(GS, validMoves, sqSelected, playerClicks,
                                 moveMade, sq[1], sq[2])} :
         /\ Len(n.playerClicks) <= MaxClicks
         /\ Len(n.gs.moveLog) <= MaxMainPly
         /\ board' = n.gs.board
         /\ moveLog' = n.gs.moveLog
         /\ whiteToMove' = n.gs.whiteToMove
         /\ whiteKingLocation' = n.gs.whiteKingLocation
         /\ blackKingLocation' = n.gs.blackKingLocation
         /\ sqSelected' = n.sqSelected
         /\ playerClicks' = n.playerClicks
         /\ moveMade' = n.moveMade
         /\ listCurrent' = (listCurrent /\ n.gs.moveLog = moveLog)
  /\ UNCHANGED <<inCheck, pins, checks, validMoves, running, pc, moveVars>>

\* One KEYDOWN event of the key z is handled.
KeyZ ==
  /\ pc = "loop"
  /\ \E n \in {undoMove(GS)} :
         /\ board' = n.board
         /\ moveLog' = n.moveLog
         /\ whiteToMove' = n.whiteToMove
         /\ whiteKingLocation' = n.whiteKingLocation
         /\ blackKingLocation' = n.blackKingLocation
  /\ moveMade' = TRUE
  /\ listCurrent' = FALSE
  /\ UNCHANGED <<inCheck, pins, checks, validMoves, sqSelected, playerClicks,
                 running, pc, moveVars>>

\* One QUIT event is handled.
Quit ==
  /\ pc = "loop"
  /\ running' = FALSE
  /\ UNCHANGED <<board, whiteToMove, moveLog, whiteKingLocation,
                 blackKingLocation, inCheck, pins, checks, validMoves,
                 listCurrent, sqSelected, playerClicks, moveMade, pc,
                 moveVars>>

\* The events of one p.event.get() are all handled: the list is recomputed
\* if moveMade, and the loop goes on while running.
EndOfEvents ==
  /\ pc = "loop"
  /\ IF moveMade
       THEN \E r \in {getValidMoves(board, whiteToMove, whiteKingLocation,
                                    blackKingLocation)} :
              /\ validMoves' = r.moves
              /\ inCheck' = r.inCheck
              /\ pins' = r.pins
              /\ checks' = r.checks
              /\ whiteKingLocation' = r.whiteKingLocation
              /\ blackKingLocation' = r.blackKingLocation
              /\ listCurrent' = TRUE
       ELSE UNCHANGED <<validMoves, inCheck, pins, checks, whiteKingLocation,
                        blackKingLocation, listCurrent>>
  /\ moveMade' = FALSE
  /\ pc' = IF running THEN "loop" ELSE "exited"
  /\ UNCHANGED <<board, whiteToMove, moveLog, sqSelected, playerClicks,
                 running, moveVars>>

MainNext == MouseButtonDown \/ KeyZ \/ Quit \/ EndOfEvents

MainSpec == MainInit /\ [][MainNext]_vars

\* ------------------------------------------------------------------------
\* The rules of chess, stated on the board alone (no castling, no en
\* passant), against which the engine's answers are compared
\* ------------------------------------------------------------------------

Squares == (0..7) \X (0..7)

Abs(x) == IF x < 0 THEN -x ELSE x

Sgn(x) == IF x < 0 THEN -1 ELSE IF x > 0 THEN 1 ELSE 0

Other(color) == IF color = "w" THEN "b" ELSE "w"

SideToMove == IF whiteToMove THEN "w" ELSE "b"

\* Every square strictly between two squares of one rank, file or diagonal
\* is empty.
ClearBetween(b, fr, fc, tr, tc) ==
  LET n  == IF Abs(tr - fr) > Abs(tc - fc) THEN Abs(tr - fr)
                                           ELSE Abs(tc - fc)
      dr == Sgn(tr - fr)
      dc == Sgn(tc - fc)
  IN  \A t \in 1..(n - 1) : b[fr + t * dr][fc + t * dc] = EMPTY

\* The piece on (fr, fc) attacks the square (tr, tc).
Attacks(b, fr, fc, tr, tc) ==
  LET p   == b[fr][fc]
      dr  == tr - fr
      dc  == tc - fc
      orth == (dr = 0) # (dc = 0)
      diag == Abs(dr) = Abs(dc) /\ dr # 0
  IN  CASE p[2] = "p" -> dr = (IF p[1] = "w" THEN -1 ELSE 1) /\ Abs(dc) = 1
        [] p[2] = "N" -> {Abs(dr), Abs(dc)} = {1, 2}
        [] p[2] = "K" -> Abs(dr) <= 1 /\ Abs(dc) <= 1 /\ <<dr, dc>> # <<0, 0>>
        [] p[2] = "R" -> orth /\ ClearBetween(b, fr, fc, tr, tc)
        [] p[2] = "B" -> diag /\ ClearBetween(b, fr, fc, tr, tc)
        [] p[2] = "Q" -> (orth \/ diag) /\ ClearBetween(b, fr, fc, tr, tc)
        [] OTHER -> FALSE

\* The squares of the pieces of one colour that attack the square (r, c).
Attackers(b, r, c, color) ==
  {s \in Squares : b[s[1]][s[2]][1] = color /\ Attacks(b, s[1], s[2], r, c)}

KingSquares(b, color) == {s \in Squares : b[s[1]][s[2]] = <<color, "K">>}

\* Some king of the colour stands attacked.
KingAttacked(b, color) ==
  \E k \in KingSquares(b, color) : Attackers(b, k[1], k[2], Other(color)) # {}

\* The piece on (fr, fc), of the given colour, may go to (tr, tc) by the
\* movement rule of its kind.
RuleMove(b, color, fr, fc, tr, tc) ==
  LET p   == b[fr][fc]
      fwd == IF color = "w" THEN -1 ELSE 1
  IN  /\ p[1] = color
      /\ IF p[2] = "p"
           THEN \/ /\ Attacks(b, fr, fc, tr, tc)
                   /\ b[tr][tc][1] = Other(color)
                \/ /\ tc = fc /\ tr = fr + fwd /\ b[tr][tc] = EMPTY
                \/ /\ tc = fc /\ tr = fr + 2 * fwd
                   /\ fr = (IF color = "w" THEN 6 ELSE 1)
                   /\ b[fr + fwd][fc] = EMPTY /\ b[tr][tc] = EMPTY
           ELSE Attacks(b, fr, fc, tr, tc) /\ b[tr][tc][1] # color

\* The board after the piece on (fr, fc) has gone to (tr, tc).
BoardAfter(b, fr, fc, tr, tc) ==
  LET p == b[fr][fc]
      q == IF p[2] = "p" /\ tr \in {0, 7} THEN <<p[1], "Q">> ELSE p
  IN  [[b EXCEPT ![fr][fc] = EMPTY] EXCEPT ![tr][tc] = q]

\* The legal moves of a colour, as <<fr, fc, tr, tc>>.
LegalMoves(b, color) ==
  {m \in {<<s[1], s[2], t[1], t[2]>> :
             s \in {x \in Squares : b[x[1]][x[2]][1] = color}, t \in Squares} :
     /\ RuleMove(b, color, m[1], m[2], m[3], m[4])
     /\ ~KingAttacked(BoardAfter(b, m[1], m[2], m[3], m[4]), color)}

\* The moves of the list the caller holds, as <<fr, fc, tr, tc>>.
ListedMoves ==
  {<<validMoves[i].startRow, validMoves[i].startCol,
     validMoves[i].endRow, validMoves[i].endCol>> : i \in 1..Len(validMoves)}

\* The pieces of a colour that are the only piece between a king of that
\* colour and an enemy rook, bishop or queen attacking along that ray, as
\* [sq, king, by]: the pinned square, the king's and the pinning piece's.
PinnedPieces(b, color) ==
  {x \in [sq : {s \in Squares : b[s[1]][s[2]][1] = color},
          king : KingSquares(b, color),
          by : {s \in Squares : /\ b[s[1]][s[2]][1] = Other(color)
                                /\ b[s[1]][s[2]][2] \in {"R", "B", "Q"}}] :
     LET k == x.king   y == x.by   mid == x.sq
         dr == y[1] - k[1]   dc == y[2] - k[2]
         n  == IF Abs(dr) > Abs(dc) THEN Abs(dr) ELSE Abs(dc)
         orth == (dr = 0) # (dc = 0)
         diag == Abs(dr) = Abs(dc) /\ dr # 0
     IN  /\ \/ orth /\ b[y[1]][y[2]][2] \in {"R", "Q"}
            \/ diag /\ b[y[1]][y[2]][2] \in {"B", "Q"}
         /\ \E t \in 1..(n - 1) :
              /\ mid = <<k[1] + t * Sgn(dr), k[2] + t * Sgn(dc)>>
              /\ \A u \in (1..(n - 1)) \ {t} :
                   b[k[1] + u * Sgn(dr)][k[2] + u * Sgn(dc)] = EMPTY}

\* The square (r, c) lies on the line from the king of pin x to the pinning
\* piece: between them, or the pinning piece's square.
OnPinLine(x, r, c) ==
  LET k == x.king   y == x.by
      dr == y[1] - k[1]   dc == y[2] - k[2]
      n  == IF Abs(dr) > Abs(dc) THEN Abs(dr) ELSE Abs(dc)
  IN  \E t \in 1..n : <<r, c>> = <<k[1] + t * Sgn(dr), k[2] + t * Sgn(dc)>>

\* ------------------------------------------------------------------------
\* class Move on its own: Move objects are built from two squares and a
\* board, then compared or written in notation
\* ------------------------------------------------------------------------

\* makeMove of the moves from square to square of a game, each built on the
\* board it is made on.
RECURSIVE played(_, _)
played(gs, game) ==
  IF game = <<>> THEN gs
  ELSE played(makeMove(gs, Move(Head(game)[1], Head(game)[2], gs.board)),
              Tail(game))

\* The board after a2a3 h7h5 a3a4 h5h4 a4a5 h4h3 a5a6 h3g2 a6b7 g2h1: a
\* white pawn stands on b7 and a black queen on h1.
PlayedBoard ==
  played([ board |-> InitBoard, moveLog |-> <<>>, whiteToMove |-> TRUE,
           whiteKingLocation |-> <<7, 4>>, blackKingLocation |-> <<0, 4>> ],
         << <<<<6, 0>>, <<5, 0>>>>, <<<<1, 7>>, <<3, 7>>>>,
            <<<<5, 0>>, <<4, 0>>>>, <<<<3, 7>>, <<4, 7>>>>,
            <<<<4, 0>>, <<3, 0>>>>, <<<<4, 7>>, <<5, 7>>>>,
            <<<<3, 0>>, <<2, 0>>>>, <<<<5, 7>>, <<6, 6>>>>,
            <<<<2, 0>>, <<1, 1>>>>, <<<<6, 6>>, <<7, 7>>>> >>).board

\* Every Move that can be built on the initial board.
AllMoves == {Move(s, t, InitBoard) : s \in Squares, t \in Squares}

\* The Move objects move1 is compared with: the same two squares on the
\* played board, the two squares in the other order, and the four
\* coordinates shifted by one place.
ComparedWith(m) ==
  { Move(<<m.startRow, m.startCol>>, <<m.endRow, m.endCol>>, PlayedBoard),
    Move(<<m.endRow, m.endCol>>, <<m.startRow, m.startCol>>, InitBoard),
    Move(<<m.startCol, m.endRow>>, <<m.endCol, m.startRow>>, PlayedBoard) }

MoveInit ==
  /\ board = InitBoard
  /\ whiteToMove = TRUE
  /\ moveLog = <<>>
  /\ whiteKingLocation = <<7, 4>>
  /\ blackKingLocation = <<0, 4>>
  /\ inCheck = FALSE
  /\ pins = <<>>
  /\ checks = <<>>
  /\ validMoves = <<>>
  /\ listCurrent = FALSE
  /\ sqSelected = <<>>
  /\ playerClicks = <<>>
  /\ moveMade = FALSE
  /\ running = TRUE
  /\ pc = "loop"
  /\ move1 \in AllMoves
  /\ move2 = move1
  /\ result = <<>>

\* move1 == move2 is evaluated for another Move object move2.
Eq ==
  /\ result = <<>>
  /\ \E m \in ComparedWith(move1) :
       /\ move2' = m
       /\ result' = <<"__eq__", MoveEq(move1, m)>>
  /\ UNCHANGED <<board, whiteToMove, moveLog, whiteKingLocation,
                 blackKingLocation, inCheck, pins, checks, validMoves,
                 listCurrent, mainVars, move1>>

\* move1.getChessNotation() is evaluated.
GetChessNotation ==
  /\ result = <<>>
  /\ result' = <<"getChessNotation", getChessNotation(move1)>>
  /\ UNCHANGED <<board, whiteToMove, moveLog, whiteKingLocation,
                 blackKingLocation, inCheck, pins, checks, validMoves,
                 listCurrent, mainVars, move1, move2>>

MoveNext == Eq \/ GetChessNotation

MoveSpec == MoveInit /\ [][MoveNext]_vars

\* ------------------------------------------------------------------------
\* Properties
\* ------------------------------------------------------------------------

\* C1: for every move m of the list returned for the current position,
\* makeMove(m) followed by undoMove() restores the board, whiteToMove, both
\* king locations and the move log.
RoundTrip ==
  listCurrent =>
    \A i \in 1..Len(validMoves) : undoMove(makeMove(GS, validMoves[i])) = GS

\* A position whose list holds a promotion that captures.
RoundTripWitness ==
  /\ listCurrent
  /\ \E i \in 1..Len(validMoves) :
       validMoves[i].isPawnPromotion /\ validMoves[i].pieceCaptured # EMPTY

\* C2: every move of the list returned for the current position is legal:
\* after makeMove the king of the side that moved is not attacked.
ListedMovesLegal ==
  listCurrent =>
    \A i \in 1..Len(validMoves) :
      ~KingAttacked(makeMove(GS, validMoves[i]).board, SideToMove)

\* C3: the board holds exactly one white king and exactly one black king.
OneKingEach ==
  /\ Cardinality(KingSquares(board, "w")) = 1
  /\ Cardinality(KingSquares(board, "b")) = 1

\* C4: whiteKingLocation is the square of the white king and
\* blackKingLocation the square of the black king, after every operation.
KingCacheInSync ==
  /\ board[whiteKingLocation[1]][whiteKingLocation[2]] = <<"w", "K">>
  /\ board[blackKingLocation[1]][blackKingLocation[2]] = <<"b", "K">>

\* C5: when the side to move is not in check, the returned list omits no
\* legal move.
NoLegalMoveOmitted ==
  (listCurrent /\ ~KingAttacked(board, SideToMove)) =>
    LegalMoves(board, SideToMove) \subseteq ListedMoves

\* The GameState is as its constructor leaves it.
FreshGame ==
  /\ board = InitBoard
  /\ whiteToMove
  /\ moveLog = <<>>
  /\ whiteKingLocation = <<7, 4>>
  /\ blackKingLocation = <<0, 4>>

\* C6: on a freshly constructed GameState getValidMoves() returns exactly
\* 20 moves, the one- and two-square advance of each white pawn and the four
\* knight moves, and inCheck is false.
TwentyOpeningMoves ==
  (listCurrent /\ FreshGame) =>
    /\ Len(validMoves) = 20
    /\ {getChessNotation(validMoves[i]) : i \in 1..Len(validMoves)} =
         {"a2a3", "a2a4", "b2b3", "b2b4", "c2c3", "c2c4", "d2d3", "d2d4",
          "e2e3", "e2e4", "f2f3", "f2f4", "g2g3", "g2g4", "h2h3", "h2h4",
          "b1a3", "b1c3", "g1f3", "g1h3"}
    /\ \A i \in 1..Len(validMoves) :
         validMoves[i].pieceMoved \in {<<"w", "p">>, <<"w", "N">>}
    /\ ~inCheck

\* The list has been returned for the freshly constructed GameState.
TwentyOpeningMovesWitness == listCurrent /\ FreshGame

FoolsMate == <<"f2f3", "e7e5", "g2g4", "d8h4">>

\* C7: each move of f2-f3, e7-e5, g2-g4, Qd8-h4 is in the list returned at
\* the time it is played, and after the fourth move the list is empty with
\* inCheck true and white to move.
FoolsMateIsMate ==
  (listCurrent /\ IsPrefix(logNotation, FoolsMate)) =>
    IF Len(moveLog) < Len(FoolsMate)
      THEN \E i \in 1..Len(validMoves) :
             getChessNotation(validMoves[i]) = FoolsMate[Len(moveLog) + 1]
      ELSE validMoves = <<>> /\ inCheck /\ whiteToMove

\* The list has been returned after the four moves were played.
FoolsMateIsMateWitness == listCurrent /\ logNotation = FoolsMate

\* The cached location of the king of the side to move.
CachedKing == IF whiteToMove THEN whiteKingLocation ELSE blackKingLocation

\* The king of the side to move stands on its cached square.
KingOnCachedSquare ==
  board[CachedKing[1]][CachedKing[2]] = <<SideToMove, "K">>

\* C8: with the king of the side to move on its cached square, inCheck is
\* true iff some enemy piece attacks the king's square, and checks holds the
\* square of every attacking piece and of no other piece.
ChecksAreTheAttackers ==
  (listCurrent /\ KingOnCachedSquare) =>
    LET A == Attackers(board, CachedKing[1], CachedKing[2],
                       Other(SideToMove))
    IN  /\ inCheck = (A # {})
        /\ {<<checks[i][1], checks[i][2]>> : i \in 1..Len(checks)} = A

\* A double check: a knight and a piece on a ray attack the king.
ChecksAreTheAttackersWitness ==
  /\ listCurrent
  /\ KingOnCachedSquare
  /\ Len(checks) = 2
  /\ \E i \in 1..Len(checks) : board[checks[i][1]][checks[i][2]][2] = "N"

\* Every listed move of a pinned piece of one of the kinds ends on the line
\* from its king to the pinning piece.
PinnedStayOnLine(kinds) ==
  listCurrent =>
    \A x \in PinnedPieces(board, SideToMove) :
      board[x.sq[1]][x.sq[2]][2] \in kinds =>
        \A i \in 1..Len(validMoves) :
          <<validMoves[i].startRow, validMoves[i].startCol>> = x.sq =>
            OnPinLine(x, validMoves[i].endRow, validMoves[i].endCol)

\* The pin x runs along a rank or file.
OrthogonalPin(x) == x.king[1] = x.by[1] \/ x.king[2] = x.by[2]

\* C9: every listed move of a pinned bishop or rook ends on the line from
\* its king to the pinning piece; a bishop pinned on a rank or file and a
\* rook pinned on a diagonal have no listed move.
PinnedBishopRookOnLine ==
  /\ PinnedStayOnLine({"B", "R"})
  /\ listCurrent =>
       \A x \in PinnedPieces(board, SideToMove) :
         (\/ board[x.sq[1]][x.sq[2]][2] = "B" /\ OrthogonalPin(x)
          \/ board[x.sq[1]][x.sq[2]][2] = "R" /\ ~OrthogonalPin(x)) =>
           \A i \in 1..Len(validMoves) :
             <<validMoves[i].startRow, validMoves[i].startCol>> # x.sq

\* A pinned rook that has listed moves.
PinnedBishopRookOnLineWitness ==
  /\ listCurrent
  /\ \E x \in PinnedPieces(board, SideToMove) :
       /\ board[x.sq[1]][x.sq[2]][2] = "R"
       /\ \E i \in 1..Len(validMoves) :
            <<validMoves[i].startRow, validMoves[i].startCol>> = x.sq

\* C10: every listed move of a pinned queen ends on the line from its king
\* to the pinning piece.
PinnedQueenOnLine == PinnedStayOnLine({"Q"})

\* C11: undoMove() with an empty move log changes nothing: the board,
\* whiteToMove, both king locations and the empty log stay as they are.
UndoOnEmptyLogIsNoOp == moveLog = <<>> => undoMove(GS) = GS

\* undoMove() has emptied the log: the checks field still holds the check
\* of a position of the game taken back.
UndoOnEmptyLogIsNoOpWitness ==
  /\ moveLog = <<>>
  /\ ~listCurrent
  /\ checks # <<>>

\* The GameState as __init__ leaves it.
InitialGS ==
  [ board |-> InitBoard, moveLog |-> <<>>, whiteToMove |-> TRUE,
    whiteKingLocation |-> <<7, 4>>, blackKingLocation |-> <<0, 4>> ]

\* undoMove() called n times in a row.
RECURSIVE undoTimes(_, _)
undoTimes(gs, n) == IF n = 0 THEN gs ELSE undoTimes(undoMove(gs), n - 1)

\* C12: from every reachable state, undoMove() called len(moveLog) times
\* gives the initial state, and each call takes the last move off the log.
UndoDrainsToInitial ==
  /\ undoTimes(GS, Len(moveLog)) = InitialGS
  /\ \A n \in 0..Len(moveLog) :
       undoTimes(GS, n).moveLog = SubSeq(moveLog, 1, Len(moveLog) - n)

\* A game in which a king has moved and a pawn has promoted with a capture.
UndoDrainsToInitialWitness ==
  /\ \E i \in 1..Len(moveLog) : moveLog[i].pieceMoved[2] = "K"
  /\ \E i \in 1..Len(moveLog) :
       moveLog[i].isPawnPromotion /\ moveLog[i].pieceCaptured # EMPTY

\* The candidate built from the square first and the square second is
\* equal, by start and end square, to some element of the caller's list.
CandidateListed(first, second) ==
  \E i \in 1..Len(validMoves) :
    /\ <<validMoves[i].startRow, validMoves[i].startCol>> = first
    /\ <<validMoves[i].endRow, validMoves[i].endCol>> = second

\* C13: when the second click completes a candidate that is equal to no
\* element of the list, the handler does not call makeMove: the board,
\* whiteToMove, both king locations and the move log are as before.
RejectedCandidateChangesNothing ==
  \A sq \in ClickSquares :
    (/\ Len(playerClicks) = 1
     /\ sqSelected # sq
     /\ ~CandidateListed(playerClicks[1], sq)) =>
      mouseButtonDown(GS, validMoves, sqSelected, playerClicks, moveMade,
                      sq[1], sq[2]).gs = GS

\* The handler has rejected a candidate and left both clicks in the buffer.
RejectedCandidateChangesNothingWitness ==
  /\ Len(playerClicks) = 2
  /\ ~CandidateListed(playerClicks[1], playerClicks[2])

\* The effect of makeMove(m) stated field by field: gs is the GameState at
\* the call and n is the GameState at the return.
MakeMoveEffect(gs, m, n) ==
  LET start == <<m.startRow, m.startCol>>
      end   == <<m.endRow, m.endCol>>
  IN  /\ n.board[start[1]][start[2]] = EMPTY
      /\ n.board[end[1]][end[2]] =
           (IF m.isPawnPromotion THEN <<m.pieceMoved[1], "Q">>
                                 ELSE m.pieceMoved)
      /\ \A s \in Squares \ {start, end} :
           n.board[s[1]][s[2]] = gs.board[s[1]][s[2]]
      /\ n.moveLog = Append(gs.moveLog, m)
      /\ n.whiteToMove = ~gs.whiteToMove
      /\ n.whiteKingLocation =
           (IF m.pieceMoved = <<"w", "K">> THEN end
                                           ELSE gs.whiteKingLocation)
      /\ n.blackKingLocation =
           (IF m.pieceMoved = <<"b", "K">> THEN end
                                           ELSE gs.blackKingLocation)

SameSquares(m1, m2) ==
  /\ m1.startRow = m2.startRow /\ m1.startCol = m2.startCol
  /\ m1.endRow = m2.endRow /\ m1.endCol = m2.endCol

\* C16: m1 == m2 is True exactly when the two moves have the same start and
\* end squares, whatever their pieceMoved, pieceCaptured and
\* isPawnPromotion: no Move with other coordinates in 0..7 has the moveID of
\* move1.
EqualIffSameSquares ==
  /\ (result # <<>> /\ result[1] = "__eq__") =>
       (result[2] <=> SameSquares(move1, move2))
  /\ result = <<"__eq__", TRUE>> =>
       \A m \in AllMoves : MoveEq(move1, m) <=> SameSquares(move1, m)

\* Two moves with the same squares and different moved pieces were found
\* equal.
EqualIffSameSquaresWitness ==
  /\ result = <<"__eq__", TRUE>>
  /\ move1.pieceMoved # move2.pieceMoved
  /\ move1.isPawnPromotion # move2.isPawnPromotion

\* The letters of the files a..h and the digits of the ranks 1..8.
FileLetters == <<"a", "b", "c", "d", "e", "f", "g", "h">>
RankDigits == <<"1", "2", "3", "4", "5", "6", "7", "8">>

\* file(c1) rank(r1) file(c2) rank(r2) for a move from (r1, c1) to (r2, c2).
FourCharacters(m) ==
  FileLetters[m.startCol + 1] \o RankDigits[8 - m.startRow] \o
  FileLetters[m.endCol + 1] \o RankDigits[8 - m.endRow]

\* C17: getChessNotation() returns file(c1) rank(r1) file(c2) rank(r2); the
\* move from (6,4) to (4,4) is written "e2e4"; moves with other squares are
\* written differently.
NotationIsFileRankFileRank ==
  (result # <<>> /\ result[1] = "getChessNotation") =>
    /\ result[2] = FourCharacters(move1)
    /\ (<<move1.startRow, move1.startCol, move1.endRow, move1.endCol>>
          = <<6, 4, 4, 4>>) => result[2] = "e2e4"
    /\ \A m \in AllMoves :
         (getChessNotation(m) = result[2]) <=> SameSquares(move1, m)

\* The notation of the move from (6,4) to (4,4) has been asked for.
NotationIsFileRankFileRankWitness ==
  /\ result # <<>>
  /\ result[1] = "getChessNotation"
  /\ <<move1.startRow, move1.startCol, move1.endRow, move1.endCol>>
       = <<6, 4, 4, 4>>

\* C18: the list returned for the current position is empty exactly when
\* the side to move has no legal move, and with an empty list inCheck tells
\* whether the king is attacked.
EmptyListIffNoLegalMove ==
  listCurrent =>
    /\ (validMoves = <<>>) <=> (LegalMoves(board, SideToMove) = {})
    /\ (validMoves = <<>>) => (inCheck <=> KingAttacked(board, SideToMove))

\* The squares whose content differs between two boards.
ChangedSquares(b1, b2) == {s \in Squares : b1[s[1]][s[2]] # b2[s[1]][s[2]]}

\* C19: no listed move is a castling or an en passant capture: a listed king
\* move changes row and column by at most 1, a listed pawn move to another
\* column ends on an enemy piece, and makeMove of a listed move changes at
\* most two squares of the board.
NoCastlingNoEnPassant ==
  listCurrent =>
    \A i \in 1..Len(validMoves) :
      LET m == validMoves[i]
      IN  /\ m.pieceMoved[2] = "K" =>
               /\ Abs(m.endRow - m.startRow) <= 1
               /\ Abs(m.endCol - m.startCol) <= 1
          /\ (m.pieceMoved[2] = "p" /\ m.endCol # m.startCol) =>
               board[m.endRow][m.endCol][1] = Other(SideToMove)
          /\ Cardinality(ChangedSquares(board, makeMove(GS, m).board)) <= 2

\* The list holds a pawn capture and a king move, and the pawn of the last
\* move has just advanced two squares to stand beside an enemy pawn.
NoCastlingNoEnPassantWitness ==
  /\ listCurrent
  /\ \E i \in 1..Len(validMoves) :
       validMoves[i].pieceMoved[2] = "p"
         /\ validMoves[i].endCol # validMoves[i].startCol
  /\ \E i \in 1..Len(validMoves) : validMoves[i].pieceMoved[2] = "K"
  /\ moveLog # <<>>
  /\ LET m == moveLog[Len(moveLog)]
     IN  /\ m.pieceMoved[2] = "p"
         /\ Abs(m.endRow - m.startRow) = 2
         /\ \E c \in {m.endCol - 1, m.endCol + 1} \cap (0..7) :
              board[m.endRow][c] = <<Other(m.pieceMoved[1]), "p">>

\* C20: when a rook, bishop or queen checks the king of the side to move
\* along a ray, the list does not hold the king move that steps one square
\* straight away from the checking piece along that ray.
NoStepBackAlongCheckRay ==
  listCurrent =>
    \A k \in KingSquares(board, SideToMove) :
      \A y \in Attackers(board, k[1], k[2], Other(SideToMove)) :
        board[y[1]][y[2]][2] \in {"R", "B", "Q"} =>
          <<k[1], k[2], k[1] + Sgn(k[1] - y[1]), k[2] + Sgn(k[2] - y[2])>>
            \notin ListedMoves

\* The squares strictly between two squares of one rank, file or diagonal.
StrictlyBetween(k, y) ==
  LET dr == y[1] - k[1]   dc == y[2] - k[2]
      n  == IF Abs(dr) > Abs(dc) THEN Abs(dr) ELSE Abs(dc)
  IN  {<<k[1] + t * Sgn(dr), k[2] + t * Sgn(dc)>> : t \in 1..(n - 1)}

\* C21: when exactly one enemy piece attacks the king of the side to move,
\* every listed move of a piece other than the king ends on the attacking
\* piece's square or, unless the attacker is a knight, on a square strictly
\* between the king and the attacker.
SingleCheckBlockedOrCaptured ==
  (listCurrent /\ KingOnCachedSquare) =>
    LET A == Attackers(board, CachedKing[1], CachedKing[2],
                       Other(SideToMove))
    IN  Cardinality(A) = 1 =>
          \A y \in A : \A i \in 1..Len(validMoves) :
            validMoves[i].pieceMoved[2] # "K" =>
              \/ <<validMoves[i].endRow, validMoves[i].endCol>> = y
              \/ /\ board[y[1]][y[2]][2] # "N"
                 /\ <<validMoves[i].endRow, validMoves[i].endCol>>
                      \in StrictlyBetween(CachedKing, y)

\* One bishop checks the king and the list holds a move of another piece to
\* a square between them.
SingleCheckBlockedOrCapturedWitness ==
  /\ listCurrent
  /\ KingOnCachedSquare
  /\ LET A == Attackers(board, CachedKing[1], CachedKing[2],
                        Other(SideToMove))
     IN  /\ Cardinality(A) = 1
         /\ \E y \in A :
              /\ board[y[1]][y[2]][2] = "B"
              /\ \E i \in 1..Len(validMoves) :
                   /\ validMoves[i].pieceMoved[2] # "K"
                   /\ <<validMoves[i].endRow, validMoves[i].endCol>>
                        \in StrictlyBetween(CachedKing, y)

\* C22: when two or more enemy pieces attack the king of the side to move,
\* every listed move is a move of that king from the king's square.
DoubleCheckOnlyKingMoves ==
  (/\ listCurrent
   /\ KingOnCachedSquare
   /\ Cardinality(Attackers(board, CachedKing[1], CachedKing[2],
                            Other(SideToMove))) >= 2) =>
      \A i \in 1..Len(validMoves) :
        /\ validMoves[i].pieceMoved = <<SideToMove, "K">>
        /\ <<validMoves[i].startRow, validMoves[i].startCol>> = CachedKing

\* Two pieces attack the king, the list is not empty, and another piece of
\* the side to move could capture one of the attackers.
DoubleCheckOnlyKingMovesWitness ==
  /\ listCurrent
  /\ KingOnCachedSquare
  /\ validMoves # <<>>
  /\ LET A == Attackers(board, CachedKing[1], CachedKing[2],
                        Other(SideToMove))
     IN  /\ Cardinality(A) >= 2
         /\ \E y \in A :
              Attackers(board, y[1], y[2], SideToMove) \ {CachedKing} # {}

\* C23: with no check, a pinned pawn's move to a square is listed if and
\* only if the pawn may go there by the pawn's movement rule and the square
\* lies on the line from its king to the pinning piece, on whichever side of
\* the pawn the king stands.
PinnedPawnMovesOnLine ==
  (/\ listCurrent
   /\ \A k \in KingSquares(board, SideToMove) :
        Attackers(board, k[1], k[2], Other(SideToMove)) = {}) =>
    \A x \in PinnedPieces(board, SideToMove) :
      board[x.sq[1]][x.sq[2]][2] = "p" =>
        \A t \in Squares :
          (<<x.sq[1], x.sq[2], t[1], t[2]>> \in ListedMoves) <=>
            (/\ RuleMove(board, SideToMove, x.sq[1], x.sq[2], t[1], t[2])
             /\ OnPinLine(x, t[1], t[2]))

\* C24: a pinned knight of the side to move has no listed move.
PinnedKnightHasNoMove ==
  listCurrent =>
    \A x \in PinnedPieces(board, SideToMove) :
      board[x.sq[1]][x.sq[2]][2] = "N" =>
        \A i \in 1..Len(validMoves) :
          <<validMoves[i].startRow, validMoves[i].startCol>> # x.sq

\* A pinned knight that could jump to a square not held by its own side,
\* with no check in the position.
PinnedKnightHasNoMoveWitness ==
  /\ listCurrent
  /\ validMoves # <<>>
  /\ \A k \in KingSquares(board, SideToMove) :
       Attackers(board, k[1], k[2], Other(SideToMove)) = {}
  /\ \E x \in PinnedPieces(board, SideToMove) :
       /\ board[x.sq[1]][x.sq[2]][2] = "N"
       /\ \E t \in Squares :
            RuleMove(board, SideToMove, x.sq[1], x.sq[2], t[1], t[2])

\* Two squares are adjacent: row and column distance both at most 1.
Adjacent(s, t) == Abs(s[1] - t[1]) <= 1 /\ Abs(s[2] - t[2]) <= 1

\* C25: in every state reached by makeMove of listed moves and undoMove, no
\* white king stands on a square adjacent to a black king.
KingsNeverAdjacent ==
  \A w \in KingSquares(board, "w") : \A k \in KingSquares(board, "b") :
    ~Adjacent(w, k)

\* The list of a position in which the king of the side to move could step,
\* by the king's rule, to a square next to the other king, and has some
\* listed move.
KingsNeverAdjacentWitness ==
  /\ listCurrent
  /\ \E k \in KingSquares(board, SideToMove) :
       /\ \E i \in 1..Len(validMoves) :
            <<validMoves[i].startRow, validMoves[i].startCol>> = k
       /\ \E t \in Squares : \E e \in KingSquares(board, Other(SideToMove)) :
            /\ RuleMove(board, SideToMove, k[1], k[2], t[1], t[2])
            /\ Adjacent(t, e)

\* C26: whenever the main loop passes a move to makeMove, the move is in
\* the list getValidMoves() gives for the position it is applied to, and the
\* piece moved belongs to the side to move.
AppliedMovesAreCurrentlyLegal ==
  [][Len(moveLog') > Len(moveLog) =>
       LET m == moveLog'[Len(moveLog) + 1]
           current == getValidMoves(board, whiteToMove, whiteKingLocation,
                                    blackKingLocation).moves
       IN  /\ m.pieceMoved[1] = SideToMove
           /\ \E i \in 1..Len(current) : current[i] = m]_vars

\* C27: after a second click whose candidate is equal to no element of the
\* list, the click buffer holds exactly the square of that click, which is
\* the selected square, whatever events were handled before.
RejectedClickStartsNewAttempt ==
  \A sq \in ClickSquares :
    (/\ Len(playerClicks) = 1
     /\ sqSelected # sq
     /\ ~CandidateListed(playerClicks[1], sq)) =>
      \E n \in {mouseButtonDown(GS, validMoves, sqSelected, playerClicks,
                                moveMade, sq[1], sq[2])} :
        /\ n.sqSelected = sq
        /\ n.playerClicks = <<n.sqSelected>>

\* The elements of a list of moves.
MoveSet(ms) == {ms[i] : i \in 1..Len(ms)}

\* The call whose result is first left the king locations wkl and bkl as
\* they were, and the next call, whose result is second, returns the same
\* moves.
SameAnswerTwice(first, second, wkl, bkl) ==
  /\ first.whiteKingLocation = wkl
  /\ first.blackKingLocation = bkl
  /\ second.whiteKingLocation = wkl
  /\ second.blackKingLocation = bkl
  /\ MoveSet(second.moves) = MoveSet(first.moves)

\* getValidMoves() called on a GameState, and called again on the GameState
\* the first call left.
calledTwice(first, b, wtm) ==
  [first  |-> first,
   second |-> getValidMoves(b, wtm, first.whiteKingLocation,
                            first.blackKingLocation)]

\* C28: getValidMoves() leaves the king locations as they were at the call
\* (it assigns no other field of the position), and a second call right
\* after it returns the same set of moves.
GetValidMovesIsPureQuery ==
  \E t \in {calledTwice(getValidMoves(board, whiteToMove, whiteKingLocation,
                                      blackKingLocation),
                        board, whiteToMove)} :
    SameAnswerTwice(t.first, t.second, whiteKingLocation, blackKingLocation)

\* getValidMoves() has returned a list for a position where getKingMoves
\* moved the king location to a candidate square: a king of the side to
\* move has a neighbouring square not held by its own side.
GetValidMovesIsPureQueryWitness ==
  /\ listCurrent
  /\ \E k \in KingSquares(board, SideToMove) : \E t \in Squares :
       /\ Adjacent(k, t)
       /\ t # k
       /\ t # <<k[1] + 1, k[2] + 1>>
       /\ board[t[1]][t[2]][1] # SideToMove

\* The pins checkForPinsAndChecks finds for the side to move.
CurrentPins ==
  checkForPinsAndChecks(board, whiteToMove, whiteKingLocation,
                        blackKingLocation).pins

\* The squares of the pieces of the side to move, of one of the kinds, that
\* the generators take for unpinned: the pins list of the position has no
\* entry for them (piece_pinned stays False).
Unpinned(kinds) ==
  {s \in Squares : /\ board[s[1]][s[2]][1] = SideToMove
                   /\ board[s[1]][s[2]][2] \in kinds
                   /\ pinIndex(CurrentPins, s[1], s[2]) = 0}

\* The moves ms all start on s with the piece that stands there, end on
\* exactly the squares the piece may go to by the movement rule of its kind,
\* and no two of them end on the same square.
ExactlyTheRuleMoves(ms, s) ==
  /\ \A i \in 1..Len(ms) :
       /\ <<ms[i].startRow, ms[i].startCol>> = s
       /\ ms[i].pieceMoved = board[s[1]][s[2]]
       /\ ms[i].pieceCaptured = board[ms[i].endRow][ms[i].endCol]
  /\ {<<ms[i].endRow, ms[i].endCol>> : i \in 1..Len(ms)} =
       {t \in Squares : RuleMove(board, SideToMove, s[1], s[2], t[1], t[2])}
  /\ \A i, j \in 1..Len(ms) :
       <<ms[i].endRow, ms[i].endCol>> = <<ms[j].endRow, ms[j].endCol>> => i = j

\* C29: for every unpinned pawn of the side to move, getPawnMoves generates
\* the one-square advance iff the square ahead is empty, the two-square
\* advance iff the pawn is on its starting row and both squares ahead are
\* empty, each forward-diagonal move iff that square holds an enemy piece,
\* and nothing else.
UnpinnedPawnMovesExact ==
  \A s \in Unpinned({"p"}) :
    ExactlyTheRuleMoves(
      getPawnMoves(board, whiteToMove, CurrentPins, s[1], s[2]).moves, s)

\* An unpinned pawn on its starting row with the square ahead empty and the
\* square two ahead occupied, and an unpinned pawn with an enemy piece on a
\* forward diagonal.
UnpinnedPawnMovesExactWitness ==
  /\ \E s \in Unpinned({"p"}) :
       LET fwd == IF whiteToMove THEN -1 ELSE 1
       IN  /\ s[1] = (IF whiteToMove THEN 6 ELSE 1)
           /\ board[s[1] + fwd][s[2]] = EMPTY
           /\ board[s[1] + 2 * fwd][s[2]] # EMPTY
  /\ \E s \in Unpinned({"p"}) : \E t \in Squares :
       /\ t[2] # s[2]
       /\ RuleMove(board, SideToMove, s[1], s[2], t[1], t[2])

\* C30: for every unpinned rook, bishop or queen of the side to move, the
\* generated moves end exactly on the empty squares of each of the piece's
\* rays up to the first occupied square, and on that square iff it holds an
\* enemy piece; none ends behind the first occupied square or on a piece of
\* its own side, and no destination is generated twice.
UnpinnedSliderMovesExact ==
  /\ \A s \in Unpinned({"R"}) :
       ExactlyTheRuleMoves(
         getRookMoves(board, whiteToMove, CurrentPins, s[1], s[2]).moves, s)
  /\ \A s \in Unpinned({"B"}) :
       ExactlyTheRuleMoves(
         getBishopMoves(board, whiteToMove, CurrentPins, s[1], s[2]).moves, s)
  /\ \A s \in Unpinned({"Q"}) :
       ExactlyTheRuleMoves(
         getQueenMoves(board, whiteToMove, CurrentPins, s[1], s[2]).moves, s)

\* The piece on s may go, by its rule, to an empty square and to a square
\* holding an enemy piece.
MovesAndCaptures(s) ==
  /\ \E t \in Squares :
       /\ board[t[1]][t[2]] = EMPTY
       /\ RuleMove(board, SideToMove, s[1], s[2], t[1], t[2])
  /\ \E t \in Squares :
       /\ board[t[1]][t[2]] # EMPTY
       /\ RuleMove(board, SideToMove, s[1], s[2], t[1], t[2])

\* An unpinned rook, an unpinned bishop and an unpinned queen of the side to
\* move with moves to empty squares, the rook and the queen also with a
\* capture.
UnpinnedSliderMovesExactWitness ==
  /\ \E s \in Unpinned({"R"}) : MovesAndCaptures(s)
  /\ \E s \in Unpinned({"Q"}) : MovesAndCaptures(s)
  /\ \E s \in Unpinned({"B"}) : \E t \in Squares :
       RuleMove(board, SideToMove, s[1], s[2], t[1], t[2])

\* C31: whiteToMove is true if and only if the length of the move log is
\* even; makeMove makes the log exactly one longer, and undoMove on a
\* non-empty log makes it exactly one shorter.
TurnFollowsLogParity ==
  /\ whiteToMove <=> (Len(moveLog) % 2 = 0)
  /\ \A i \in 1..Len(validMoves) :
       Len(makeMove(GS, validMoves[i]).moveLog) = Len(moveLog) + 1
  /\ moveLog # <<>> => Len(undoMove(GS).moveLog) = Len(moveLog) - 1

\* Black is to move after an odd number of moves, at least three, and the
\* list of the position is at hand.
TurnFollowsLogParityWitness ==
  /\ ~whiteToMove
  /\ Len(moveLog) >= 3
  /\ listCurrent
  /\ validMoves # <<>>

\* C32: every listed move has both squares on the board and a start square
\* different from its end square; pieceMoved is what stands on its start
\* square, a piece of the side to move; pieceCaptured is what stands on its
\* end square, which is empty or holds a piece of the other colour.
ListedMovesWellFormed ==
  listCurrent =>
    \A i \in 1..Len(validMoves) :
      LET m == validMoves[i] IN
      /\ <<m.startRow, m.startCol>> \in Squares
      /\ <<m.endRow, m.endCol>> \in Squares
      /\ <<m.startRow, m.startCol>> # <<m.endRow, m.endCol>>
      /\ m.pieceMoved = board[m.startRow][m.startCol]
      /\ m.pieceMoved[1] = SideToMove
      /\ m.pieceCaptured = board[m.endRow][m.endCol]
      /\ m.pieceCaptured[1] # SideToMove

\* The occupied squares of the ray from the square k in the direction d,
\* nearest first.
OccupiedOnRay(k, d) ==
  SelectSeq([i \in 1..7 |-> <<k[1] + i * d[1], k[2] + i * d[2]>>],
            LAMBDA s : OnBoard(s[1], s[2]) /\ board[s[1]][s[2]] # EMPTY)

\* The entries of a pins or checks list recorded for the direction d.
EntriesOfRay(es, d) == {i \in 1..Len(es) : <<es[i][3], es[i][4]>> = d}

\* What checkForPinsAndChecks returns in scan, for the king square k, obeys
\* the rule of one entry per ray.
OneEntryPerRay(scan, k) ==
  /\ \A j \in 1..8 :
       LET d   == directions[j]
           occ == OccupiedOnRay(k, d)
       IN  /\ Cardinality(EntriesOfRay(scan.pins, d))
                + Cardinality(EntriesOfRay(scan.checks, d)) <= 1
           /\ \A i \in EntriesOfRay(scan.checks, d) :
                /\ occ # <<>>
                /\ <<scan.checks[i][1], scan.checks[i][2]>> = occ[1]
           /\ \A i \in EntriesOfRay(scan.pins, d) :
                /\ Len(occ) >= 2
                /\ <<scan.pins[i][1], scan.pins[i][2]>> = occ[1]
                /\ board[occ[2][1]][occ[2][2]][1] = Other(SideToMove)
           /\ (/\ Len(occ) >= 2
               /\ board[occ[1][1]][occ[1][2]][1] = SideToMove
               /\ board[occ[2][1]][occ[2][2]][1] = SideToMove) =>
                /\ EntriesOfRay(scan.pins, d) = {}
                /\ EntriesOfRay(scan.checks, d) = {}
  /\ \A i, j \in 1..Len(scan.pins) :
       <<scan.pins[i][1], scan.pins[i][2]>> =
         <<scan.pins[j][1], scan.pins[j][2]>> => i = j

\* C33: in what checkForPinsAndChecks returns, each of the eight rays from
\* the king has at most one entry in pins and checks together, recorded for
\* the nearest enemy piece of the ray; a ray whose two nearest pieces are
\* friendly has no entry; and no square is twice in pins.
AtMostOneEntryPerRay ==
  OneEntryPerRay(
    checkForPinsAndChecks(board, whiteToMove, whiteKingLocation,
                          blackKingLocation),
    CachedKing)

====
